---- MODULE Spec2Model ----
(***************************************************************************)
(* frappe-mcp-server: the MCP tool registry, the tool-call dispatcher of   *)
(* index.ts and the group handlers (helper, blueprint, doctype-structure,  *)
(* workflow), with the schema API's getFieldOptions.                       *)
(*                                                                         *)
(* One tool call is a sequence of synchronous segments separated by the    *)
(* awaits on the remote platform: the entry segment (dispatch, argument    *)
(* validation, the first remote call), the completion of a remote call by  *)
(* the platform, and the handler's continuation after each await.          *)
(***************************************************************************)
EXTENDS Naturals, Sequences, FiniteSets, TLC

VARIABLES
    pc,          \* "idle" | "await" | "ready" | "done": position of the call in flight
    entry,       \* "none" | "dispatch" | "direct" | "list": how the request entered
    req,         \* the CallToolRequest params: [name, args]
    handler,     \* the group handler running the call ("none" before dispatch)
    stage,       \* which await a multi-await handler is suspended at
    outcome,     \* outcome of this call's remote call last completed
    remoteCalls, \* the RemoteCallSpecs issued for this call, in order
    responses,   \* the ToolCallResponses returned for this call, in order
    thrown,      \* TRUE when an exception escaped the handler to its caller
    invoked,     \* the group handlers invoked for this call, in order
    log,         \* the steps of this call, in order
    locals,      \* the locals the suspended function keeps across its awaits
    listed,      \* the tool names of the last list_tools response
    registry,    \* the exported tool arrays of the groups, as they are at run time
    phase,       \* "starting" | "listening" | "aborted" | "exited": the process of main()
    credentials, \* "unchecked" | "valid" | "invalid": what validateApiCredentials found
    conns,       \* the HTTP requests on /mcp, by request: position, objects, response
    instances,   \* the number of server and transport objects constructed so far
    closed,      \* the server and transport objects closed so far
    staticHints, \* the module variable staticHints: [doctype, workflow] tables
    loader,      \* the position of a loadStaticHints() in progress, with its inputs
    lookups      \* the results the hint lookups have returned, with the tables to compare

toolVars == <<pc, entry, req, handler, stage, locals, outcome, remoteCalls, responses,
              thrown, invoked, log, listed, registry>>
httpVars == <<phase, credentials, conns, instances, closed>>
hintVars == <<staticHints, loader, lookups>>

vars == <<pc, entry, req, handler, stage, locals, outcome, remoteCalls, responses,
          thrown, invoked, log, listed, registry, phase, credentials, conns, instances,
          closed, staticHints, loader, lookups>>

Range(s) == {s[i] : i \in 1..Len(s)}

(***************************************************************************)
(* JSON values, as decoded by the remote call adapter.  Scalars carry      *)
(* their literal text; an object is the ordered list of its members.       *)
(***************************************************************************)
JNull == [t |-> "null"]
JBool(b) == [t |-> "bool", v |-> IF b THEN "true" ELSE "false"]
JNum(n) == [t |-> "num", v |-> n]
JStr(s) == [t |-> "str", v |-> s]
\* A string given character by character (where the code splits or trims it).
JChars(cs) == [t |-> "chars", c |-> cs]
JArr(elems) == [t |-> "arr", e |-> elems]
JObj(members) == [t |-> "obj", m |-> members]
Member(k, v) == [key |-> k, val |-> v]

\* JavaScript's undefined, the value of a missing property.
JUndefined == [t |-> "undefined"]

\* obj[key] in JavaScript for a value that is not null or undefined.
RECURSIVE LookupMember(_, _)
LookupMember(members, k) ==
    IF members = <<>> THEN JUndefined
    ELSE IF Head(members).key = k THEN Head(members).val
    ELSE LookupMember(Tail(members), k)

GetProp(v, k) == IF v.t = "obj" THEN LookupMember(v.m, k) ELSE JUndefined

\* JavaScript truthiness of a decoded value.
Truthy(v) ==
    CASE v.t = "undefined" -> FALSE
      [] v.t = "null" -> FALSE
      [] v.t = "bool" -> v.v = "true"
      [] v.t = "num" -> v.v # "0"
      [] v.t = "str" -> v.v # ""
      [] v.t = "chars" -> v.c # <<>>
      [] OTHER -> TRUE

(***************************************************************************)
(* Text.  A string is modelled as its sequence of tokens: the tokens of a  *)
(* JSON document (punctuation, literals, string and number tokens; the     *)
(* indentation of JSON.stringify(v, null, 2) is insignificant white space) *)
(* and the words of prose.                                                 *)
(***************************************************************************)
Tok(k, s) == [k |-> k, s |-> s]
P(s) == Tok("p", s)
W(s) == Tok("w", s)

RECURSIVE JSONstringify(_), StringifyElems(_), StringifyMembers(_)
JSONstringify(v) ==
    CASE v.t = "null" -> <<Tok("lit", "null")>>
      [] v.t = "bool" -> <<Tok("lit", v.v)>>
      [] v.t = "num" -> <<Tok("num", v.v)>>
      [] v.t = "str" -> <<Tok("str", v.v)>>
      [] v.t = "chars" -> <<Tok("chars", v.c)>>
      [] v.t = "arr" -> <<P("[")>> \o StringifyElems(v.e) \o <<P("]")>>
      [] v.t = "obj" -> <<P("{")>> \o StringifyMembers(v.m) \o <<P("}")>>

StringifyElems(es) ==
    IF es = <<>> THEN <<>>
    ELSE IF Len(es) = 1 THEN JSONstringify(es[1])
    ELSE JSONstringify(es[1]) \o <<P(",")>> \o StringifyElems(Tail(es))

StringifyMembers(ms) ==
    IF ms = <<>> THEN <<>>
    ELSE LET one == <<Tok("str", ms[1].key), P(":")>> \o JSONstringify(ms[1].val)
         IN IF Len(ms) = 1 THEN one
            ELSE one \o <<P(",")>> \o StringifyMembers(Tail(ms))

ParseFail == [ok |-> FALSE, val |-> JNull, rest |-> <<>>]
ParseOk(v, r) == [ok |-> TRUE, val |-> v, rest |-> r]

\* A later member with the same key replaces the earlier one's value.
RECURSIVE PutMember(_, _, _)
PutMember(ms, k, v) ==
    IF ms = <<>> THEN <<Member(k, v)>>
    ELSE IF Head(ms).key = k THEN <<Member(k, v)>> \o Tail(ms)
    ELSE <<Head(ms)>> \o PutMember(Tail(ms), k, v)

RECURSIVE ParseValue(_), ParseElems(_, _), ParseMembers(_, _)
ParseValue(ts) ==
    IF ts = <<>> THEN ParseFail
    ELSE LET h == Head(ts)
             r == Tail(ts)
         IN CASE h.k = "lit" ->
                    ParseOk(IF h.s = "null" THEN JNull ELSE JBool(h.s = "true"), r)
              [] h.k = "num" -> ParseOk(JNum(h.s), r)
              [] h.k = "str" -> ParseOk(JStr(h.s), r)
              [] h.k = "chars" -> ParseOk(JChars(h.s), r)
              [] h = P("[") ->
                    IF r # <<>> /\ Head(r) = P("]") THEN ParseOk(JArr(<<>>), Tail(r))
                    ELSE ParseElems(r, <<>>)
              [] h = P("{") ->
                    IF r # <<>> /\ Head(r) = P("}") THEN ParseOk(JObj(<<>>), Tail(r))
                    ELSE ParseMembers(r, <<>>)
              [] OTHER -> ParseFail

ParseElems(ts, acc) ==
    LET pv == ParseValue(ts)
    IN IF ~pv.ok \/ pv.rest = <<>> THEN ParseFail
       ELSE IF Head(pv.rest) = P(",")
            THEN ParseElems(Tail(pv.rest), Append(acc, pv.val))
       ELSE IF Head(pv.rest) = P("]")
            THEN ParseOk(JArr(Append(acc, pv.val)), Tail(pv.rest))
       ELSE ParseFail

ParseMembers(ts, acc) ==
    IF Len(ts) < 3 \/ ts[1].k # "str" \/ ts[2] # P(":") THEN ParseFail
    ELSE LET pv == ParseValue(SubSeq(ts, 3, Len(ts)))
         IN IF ~pv.ok \/ pv.rest = <<>> THEN ParseFail
            ELSE IF Head(pv.rest) = P(",")
                 THEN ParseMembers(Tail(pv.rest), PutMember(acc, ts[1].s, pv.val))
            ELSE IF Head(pv.rest) = P("}")
                 THEN ParseOk(JObj(PutMember(acc, ts[1].s, pv.val)), Tail(pv.rest))
            ELSE ParseFail

\* JSON.parse: the whole text must be one JSON value (else a SyntaxError).
JSONparse(ts) ==
    LET pv == ParseValue(ts)
    IN IF pv.ok /\ pv.rest = <<>> THEN [ok |-> TRUE, val |-> pv.val]
       ELSE [ok |-> FALSE, val |-> JNull]

(***************************************************************************)
(* The tool registry: the ordered tool names each group declares.          *)
(***************************************************************************)
\* document-operations.ts is not part of the sources at hand; the names are
\* the document CRUD tools that doctype-operations.ts refers callers to.
DOCUMENT_TOOLS ==
    <<"create_document", "get_document", "update_document", "delete_document",
      "list_documents">>

\* schema-operations.ts is not part of the sources at hand.
SCHEMA_TOOLS == <<"get_doctype_schema", "get_field_options">>

\* frappe-instructions.ts is not part of the sources at hand; the names are
\* the cases of handleHelperToolCall's switch.
HELPER_TOOLS ==
    <<"find_doctypes", "get_module_list", "get_doctypes_in_module",
      "check_doctype_exists", "check_document_exists", "get_document_count",
      "get_naming_info", "get_required_fields", "get_api_instructions",
      "send_whatsapp_message", "send_instagram_message">>

BLUEPRINT_TOOLS == <<"execute_blueprint", "list_blueprints", "get_blueprint_info">>

DOCTYPE_OPERATIONS_TOOLS ==
    <<"create_doctype", "create_child_table", "add_fields_to_doctype",
      "delete_doctype">>

WORKFLOW_TOOLS ==
    <<"create_blueprint", "read_blueprint", "update_blueprint", "delete_blueprint",
      "list_blueprints", "validate_blueprint", "get_available_events",
      "get_available_actions">>

\* The groups in the priority order of the design.
GroupOrder == <<"document", "schema", "helper", "blueprint", "doctype", "workflow">>

GroupTools(g) ==
    CASE g = "document" -> DOCUMENT_TOOLS
      [] g = "schema" -> SCHEMA_TOOLS
      [] g = "helper" -> HELPER_TOOLS
      [] g = "blueprint" -> BLUEPRINT_TOOLS
      [] g = "doctype" -> DOCTYPE_OPERATIONS_TOOLS
      [] g = "workflow" -> WORKFLOW_TOOLS

\* The `required` list of each tool's inputSchema.
SchemaRequired(g, name) ==
    CASE g = "doctype" /\ name = "create_doctype" -> {"name", "fields"}
      [] g = "doctype" /\ name = "create_child_table" ->
            {"parent_doctype", "child_doctype_name", "child_fields"}
      [] g = "doctype" /\ name = "add_fields_to_doctype" -> {"doctype_name", "fields"}
      [] g = "doctype" /\ name = "delete_doctype" -> {"doctype_name"}
      [] g = "blueprint" /\ name = "execute_blueprint" -> {"blueprint_name", "doc_data"}
      [] g = "blueprint" /\ name = "get_blueprint_info" -> {"blueprint_name"}
      [] g = "workflow" /\ name = "create_blueprint" -> {"name", "triggers", "actions"}
      [] g = "workflow" /\ name \in {"read_blueprint", "update_blueprint", "delete_blueprint"} ->
            {"blueprint_id"}
      [] g = "workflow" /\ name = "validate_blueprint" -> {"blueprint_json"}
      [] OTHER -> {}

(***************************************************************************)
(* Requests.  The arguments of a tool call are absent, or a mapping from   *)
(* keys to values; a value is modelled by what the handlers test of it:    *)
(* "" is the empty string (falsy), "v" a supplied non-empty value.         *)
(***************************************************************************)
UnknownTool == "unknown_tool_xyz"

ToolNames ==
    UNION {Range(GroupTools(GroupOrder[i])) : i \in 1..Len(GroupOrder)}
        \cup {"call_method", "ping", UnknownTool}

\* The argument keys the inputs range over, per tool: the keys its handler
\* tests, and the optional keys that have a default.
ToolKeys(name) ==
    CASE name = "create_doctype" -> {"name", "fields", "module"}
      [] name = "create_child_table" ->
            {"parent_doctype", "child_doctype_name", "child_fields"}
      [] name = "add_fields_to_doctype" -> {"doctype_name", "fields"}
      [] name = "delete_doctype" -> {"doctype_name"}
      [] name = "execute_blueprint" -> {"blueprint_name", "doc_data"}
      [] name = "list_blueprints" -> {"filters"}
      [] name = "get_blueprint_info" -> {"blueprint_name"}
      [] name = "create_blueprint" -> {"name", "triggers", "actions"}
      [] name = "update_blueprint" -> {"blueprint_id", "triggers"}
      [] name \in {"read_blueprint", "delete_blueprint"} -> {"blueprint_id"}
      [] name = "validate_blueprint" -> {"blueprint_json"}
      [] name = "find_doctypes" -> {"search_term"}
      [] name = "get_doctypes_in_module" -> {"module"}
      [] name \in {"check_doctype_exists", "get_naming_info", "get_required_fields"} ->
            {"doctype"}
      [] name = "check_document_exists" -> {"doctype", "name"}
      [] name = "get_document_count" -> {"doctype", "filters"}
      [] name = "get_api_instructions" -> {"category", "operation"}
      [] name \in {"send_whatsapp_message", "send_instagram_message"} ->
            {"to", "message", "content_type"}
      [] name \in Range(DOCUMENT_TOOLS) -> {"doctype"}
      [] name = "get_doctype_schema" -> {"doctype"}
      [] name = "get_field_options" -> {"doctype", "fieldname"}
      [] name = "ping" -> {"payload"}
      [] OTHER -> {}

ArgValues == {"", "v"}

NoArgs == [present |-> FALSE, m |-> [k \in {} |-> ""]]

ArgsOf(name) ==
    {NoArgs} \cup
    {[present |-> TRUE, m |-> f] :
        f \in UNION {[S -> ArgValues] : S \in SUBSET ToolKeys(name)}}

\* args.k for arguments that are present (undefined for a missing key).
Get(args, k) == IF k \in DOMAIN args.m THEN args.m[k] ELSE "undefined"

\* JavaScript truthiness of an argument value.
ArgTruthy(x) == x \notin {"", "undefined", "null"}

\* x || d
Or(x, d) == IF ArgTruthy(x) THEN x ELSE d

\* !args || !args.k1 || !args.k2 ...
AnyMissing(args, keys) == ~args.present \/ \E k \in keys : ~ArgTruthy(Get(args, k))

(***************************************************************************)
(* What one synchronous segment of a handler does: it issues a remote call *)
(* and suspends, returns a response, or throws to its caller.              *)
(***************************************************************************)
NoParams == [k \in {} |-> ""]
\* The locals a function keeps across its awaits.
NoLocals == [linked |-> "", title |-> ""]
NoResp == [content |-> <<>>, isError |-> FALSE]

\* {content: [{type: "text", text}], isError}; an isError that the handler
\* leaves out is read as false by the protocol.
TextResponse(text, isErr) ==
    [content |-> <<[type |-> "text", text |-> text]>>, isError |-> isErr]

CallStepL(trace, method, params, st, loc) ==
    [kind |-> "call", trace |-> trace, method |-> method, params |-> params,
     stage |-> st, locals |-> loc, resp |-> NoResp]

CallStep(trace, method, params, st) == CallStepL(trace, method, params, st, NoLocals)

RespondStep(trace, text, isErr) ==
    [kind |-> "respond", trace |-> trace, method |-> "", params |-> NoParams,
     stage |-> "", locals |-> NoLocals, resp |-> TextResponse(text, isErr)]

ThrowStep(trace) ==
    [kind |-> "throw", trace |-> trace, method |-> "", params |-> NoParams,
     stage |-> "", locals |-> NoLocals, resp |-> NoResp]

\* An Error object: its message, as text.
StackText == <<W("<stack>")>>
TypeErrorMessage == <<W("Cannot read properties of null")>>

(***************************************************************************)
(* handleDoctypeOperationsToolCall (doctype-operations.ts)                 *)
(***************************************************************************)
DoctypeChecked(name) ==
    CASE name = "create_doctype" -> {"name", "fields"}
      [] name = "create_child_table" ->
            {"parent_doctype", "child_doctype_name", "child_fields"}
      [] name = "add_fields_to_doctype" -> {"doctype_name", "fields"}
      [] name = "delete_doctype" -> {"doctype_name"}

DoctypeMissingMessage(name) ==
    CASE name = "create_doctype" ->
            <<W("Missing required arguments:"), W("name"), W("and"), W("fields"),
              W("are required")>>
      [] name = "create_child_table" ->
            <<W("Missing required arguments:"), W("parent_doctype"),
              W("child_doctype_name"), W("and"), W("child_fields"), W("are required")>>
      [] name = "add_fields_to_doctype" ->
            <<W("Missing required arguments:"), W("doctype_name"), W("and"),
              W("fields"), W("are required")>>
      [] name = "delete_doctype" ->
            <<W("Missing required argument:"), W("doctype_name")>>

DoctypeMethod(name) ==
    CASE name = "create_doctype" ->
            "sentra_core.builder.tools.data_tools.create_doctype_util"
      [] name = "create_child_table" ->
            "sentra_core.builder.tools.data_tools.create_child_table_util"
      [] name = "add_fields_to_doctype" ->
            "sentra_core.builder.tools.data_tools.add_fields_to_doctype_util"
      [] name = "delete_doctype" ->
            "sentra_core.builder.tools.data_tools.delete_doctype"

DoctypeParams(name, args) ==
    CASE name = "create_doctype" ->
            [name |-> Get(args, "name"), fields |-> Get(args, "fields"),
             module |-> Or(Get(args, "module"), "Sentra Core"),
             naming_rule |-> Or(Get(args, "naming_rule"), "By fieldname"),
             autoname |-> Or(Get(args, "autoname"), "null")]
      [] name = "create_child_table" ->
            [parent_doctype |-> Get(args, "parent_doctype"),
             child_doctype_name |-> Get(args, "child_doctype_name"),
             child_fields |-> Get(args, "child_fields"),
             parent_field_label |-> Or(Get(args, "parent_field_label"), "null")]
      [] name = "add_fields_to_doctype" ->
            [doctype_name |-> Get(args, "doctype_name"), fields |-> Get(args, "fields")]
      [] name = "delete_doctype" ->
            [doctype_name |-> Get(args, "doctype_name")]

\* catch (error): `Error: ${error.message}\n\nStack: ${error.stack}`
ErrorWithStack(message) == <<W("Error:")>> \o message \o <<W("Stack:")>> \o StackText

\* FormatResult without the handler's catch: the remote error escapes.
FormatResult_uncaught(out) ==
    IF out.kind = "err" \/ out.val.t \in {"null", "undefined"}
    THEN ThrowStep(<<"throw">>)
    ELSE RespondStep(<<"format", "respond">>, JSONstringify(out.val),
                     ~Truthy(GetProp(out.val, "success")))

\* FormatResult with a caption before the JSON text.
FormatResult_captioned(out) ==
    IF out.kind = "err"
    THEN RespondStep(<<"catch", "respond">>, ErrorWithStack(out.message), TRUE)
    ELSE IF out.val.t \in {"null", "undefined"}
    THEN RespondStep(<<"format", "throw", "catch", "respond">>,
                     ErrorWithStack(TypeErrorMessage), TRUE)
    ELSE RespondStep(<<"format", "respond">>, <<W("Result:")>> \o JSONstringify(out.val),
                     ~Truthy(GetProp(out.val, "success")))

\* FormatResult with isError false for a result that has no success member.
FormatResult_absentIsSuccess(out) ==
    IF out.kind = "err"
    THEN RespondStep(<<"catch", "respond">>, ErrorWithStack(out.message), TRUE)
    ELSE IF out.val.t \in {"null", "undefined"}
    THEN RespondStep(<<"format", "throw", "catch", "respond">>,
                     ErrorWithStack(TypeErrorMessage), TRUE)
    ELSE RespondStep(<<"format", "respond">>, JSONstringify(out.val),
                     /\ GetProp(out.val, "success").t # "undefined"
                     /\ ~Truthy(GetProp(out.val, "success")))

\* return {content: [{text: JSON.stringify(result, null, 2)}], isError: !result.success};
\* reading result.success of null throws a TypeError into the handler's catch.
FormatResult(out) ==
    IF out.kind = "err"
    THEN RespondStep(<<"catch", "respond">>, ErrorWithStack(out.message), TRUE)
    ELSE IF out.val.t \in {"null", "undefined"}
    THEN RespondStep(<<"format", "throw", "catch", "respond">>,
                     ErrorWithStack(TypeErrorMessage), TRUE)
    ELSE RespondStep(<<"format", "respond">>, JSONstringify(out.val),
                     ~Truthy(GetProp(out.val, "success")))

\* The segment up to the first await.
handleDoctypeOperationsToolCall(name, args) ==
    IF name \notin Range(DOCTYPE_OPERATIONS_TOOLS)
    THEN RespondStep(<<"respond">>, <<W("Unknown DocType operations tool:"), W(name)>>, TRUE)
    ELSE IF AnyMissing(args, DoctypeChecked(name))
    THEN RespondStep(<<"validate", "reject", "throw", "catch", "respond">>,
                     ErrorWithStack(DoctypeMissingMessage(name)), TRUE)
    ELSE CallStep(<<"validate", "call">>, DoctypeMethod(name),
                  DoctypeParams(name, args), "result")

\* The continuation with a retry of a failed remote call.
handleDoctypeOperationsToolCall_retry(name, args, st, out) ==
    IF out.kind = "err"
    THEN CallStep(<<"call">>, DoctypeMethod(name), DoctypeParams(name, args),
                  "result")
    ELSE FormatResult(out)

\* The segment after `await callMethod(...)`.
handleDoctypeOperationsToolCall_resume(name, args, st, out) == FormatResult(out)

(***************************************************************************)
(* handleWorkflowToolCall (workflow operations)                            *)
(***************************************************************************)
\* The tools whose branch tests its arguments, and the keys tested.
WorkflowValidates(name) ==
    name \in {"create_blueprint", "read_blueprint", "update_blueprint",
              "delete_blueprint", "validate_blueprint"}

WorkflowChecked(name) ==
    CASE name = "create_blueprint" -> {"name", "triggers", "actions"}
      [] name \in {"read_blueprint", "update_blueprint", "delete_blueprint"} ->
            {"blueprint_id"}
      [] name = "validate_blueprint" -> {"blueprint_json"}
      [] OTHER -> {}

WorkflowMissingMessage(name) ==
    CASE name = "create_blueprint" ->
            <<W("Missing required arguments:"), W("name"), W("triggers"), W("and"),
              W("actions"), W("are required")>>
      [] name = "validate_blueprint" ->
            <<W("Missing required argument:"), W("blueprint_json")>>
      [] OTHER -> <<W("Missing required argument:"), W("blueprint_id")>>

WorkflowMethod(name) ==
    CASE name = "create_blueprint" ->
            "sentra_core.builder.tools.workflow_tools.create_blueprint_util"
      [] name = "read_blueprint" ->
            "sentra_core.builder.tools.workflow_tools.read_blueprint_util"
      [] name = "update_blueprint" ->
            "sentra_core.builder.tools.workflow_tools.update_blueprint_util"
      [] name = "delete_blueprint" ->
            "sentra_core.builder.tools.workflow_tools.delete_blueprint_util"
      [] name = "list_blueprints" ->
            "sentra_core.builder.tools.workflow_tools.list_blueprints_util"
      [] name = "validate_blueprint" ->
            "sentra_core.builder.tools.workflow_tools.validate_blueprint_util"
      [] name = "get_available_events" ->
            "sentra_core.builder.tools.workflow_tools.get_available_events_util"
      [] name = "get_available_actions" ->
            "sentra_core.builder.tools.workflow_tools.get_available_actions_util"

\* args?.filters
GetOpt(args, k) == IF args.present THEN Get(args, k) ELSE "undefined"

WorkflowParams(name, args) ==
    CASE name = "create_blueprint" ->
            [name |-> Get(args, "name"), triggers |-> Get(args, "triggers"),
             actions |-> Get(args, "actions"),
             description |-> Or(Get(args, "description"), "null"),
             parameters |-> Or(Get(args, "parameters"), "null")]
      [] name = "update_blueprint" ->
            [blueprint_id |-> Get(args, "blueprint_id"),
             triggers |-> Or(Get(args, "triggers"), "null"),
             actions |-> Or(Get(args, "actions"), "null"),
             description |-> Or(Get(args, "description"), "null"),
             parameters |-> Or(Get(args, "parameters"), "null")]
      [] name \in {"read_blueprint", "delete_blueprint"} ->
            [blueprint_id |-> Get(args, "blueprint_id")]
      [] name = "list_blueprints" -> [filters |-> Or(GetOpt(args, "filters"), "null")]
      [] name = "validate_blueprint" -> [blueprint_json |-> Get(args, "blueprint_json")]
      [] OTHER -> NoParams

\* The entry segment with the remote call issued before the arguments are tested.
handleWorkflowToolCall_callFirst(name, args) ==
    IF name \notin Range(WORKFLOW_TOOLS)
    THEN RespondStep(<<"respond">>, <<W("Unknown workflow tool:"), W(name)>>, TRUE)
    ELSE CallStep(<<"call">>, WorkflowMethod(name),
                  IF args.present THEN WorkflowParams(name, args) ELSE NoParams, "result")

handleWorkflowToolCall(name, args) ==
    IF name \notin Range(WORKFLOW_TOOLS)
    THEN RespondStep(<<"respond">>, <<W("Unknown workflow tool:"), W(name)>>, TRUE)
    ELSE IF WorkflowValidates(name) /\ AnyMissing(args, WorkflowChecked(name))
    THEN RespondStep(<<"validate", "reject", "throw", "catch", "respond">>,
                     ErrorWithStack(WorkflowMissingMessage(name)), TRUE)
    ELSE CallStep(IF WorkflowValidates(name) THEN <<"validate", "call">> ELSE <<"call">>,
                  WorkflowMethod(name), WorkflowParams(name, args), "result")

handleWorkflowToolCall_resume(name, args, st, out) == FormatResult(out)

(***************************************************************************)
(* handleBlueprintToolCall (blueprint-operations.ts)                       *)
(***************************************************************************)
\* The branches that test `!args`; no branch tests a key.
BlueprintValidates(name) == name \in {"execute_blueprint", "get_blueprint_info"}

BlueprintMissingMessage(name) == <<W("Missing arguments for"), W(name)>>

BlueprintMethod(name) ==
    CASE name = "execute_blueprint" ->
            "sentra_core.bl_engine.core.blueprint_executor.execute_blueprint_manually"
      [] name = "list_blueprints" -> "frappe.client.get_list"
      [] name = "get_blueprint_info" -> "frappe.client.get"

BlueprintParams(name, args) ==
    CASE name = "execute_blueprint" ->
            [blueprint_name |-> Get(args, "blueprint_name"), doc |-> Get(args, "doc_data")]
      [] name = "list_blueprints" ->
            [doctype |-> "BL Blueprint",
             filters |-> Or(GetOpt(args, "filters"), "{is_active: 1}"),
             fields |-> "[name, blueprint_description]"]
      [] name = "get_blueprint_info" ->
            [doctype |-> "BL Blueprint", name |-> Get(args, "blueprint_name")]

BlueprintLabel(name) ==
    CASE name = "execute_blueprint" -> W("Blueprint executed successfully:")
      [] name = "list_blueprints" -> W("Available blueprints:")
      [] name = "get_blueprint_info" -> W("Blueprint details:")

\* catch (error): `Error: ${error.message}`
ErrorText(message) == <<W("Error:")>> \o message

\* The handler without the test of `!args`, reading the arguments with `args?.`.
handleBlueprintToolCall_noArgsTest(name, args) ==
    IF name \notin Range(BLUEPRINT_TOOLS)
    THEN RespondStep(<<"respond">>, <<W("Unknown blueprint tool:"), W(name)>>, TRUE)
    ELSE CallStep(<<"call">>, BlueprintMethod(name),
                  IF args.present THEN BlueprintParams(name, args) ELSE NoParams, "result")

handleBlueprintToolCall(name, args) ==
    IF name \notin Range(BLUEPRINT_TOOLS)
    THEN RespondStep(<<"respond">>, <<W("Unknown blueprint tool:"), W(name)>>, TRUE)
    ELSE IF BlueprintValidates(name) /\ ~args.present
    THEN RespondStep(<<"validate", "reject", "throw", "catch", "respond">>,
                     ErrorText(BlueprintMissingMessage(name)), TRUE)
    ELSE CallStep(IF BlueprintValidates(name) THEN <<"validate", "call">> ELSE <<"call">>,
                  BlueprintMethod(name), BlueprintParams(name, args), "result")

\* `<label>\n\n${JSON.stringify(result, null, 2)}`, isError: false.
handleBlueprintToolCall_resume(name, args, st, out) ==
    IF out.kind = "err"
    THEN RespondStep(<<"catch", "respond">>, ErrorText(out.message), TRUE)
    ELSE RespondStep(<<"format", "respond">>,
                     <<BlueprintLabel(name)>> \o JSONstringify(out.val), FALSE)

(***************************************************************************)
(* handleHelperToolCall (index-helpers.ts; the later of the file's two     *)
(* declarations is the one in effect).  The functions of frappe-helpers.ts *)
(* are not part of the sources at hand: each is modelled as one remote     *)
(* call, as the design states of every tool.                               *)
(***************************************************************************)
HelperChecked(name) ==
    CASE name = "get_doctypes_in_module" -> {"module"}
      [] name \in {"check_doctype_exists", "get_document_count", "get_naming_info",
                   "get_required_fields"} -> {"doctype"}
      [] name = "check_document_exists" -> {"doctype", "name"}
      [] name = "get_api_instructions" -> {"category", "operation"}
      [] name \in {"send_whatsapp_message", "send_instagram_message"} -> {"to", "message"}
      [] OTHER -> {}

HelperMissingMessage(name) ==
    CASE name = "get_doctypes_in_module" -> <<W("Missing required parameter:"), W("module")>>
      [] name = "check_document_exists" ->
            <<W("Missing required parameters:"), W("doctype"), W("and"), W("name")>>
      [] name = "get_api_instructions" ->
            <<W("Missing required parameters:"), W("category"), W("and"), W("operation")>>
      [] name = "send_whatsapp_message" ->
            <<W("Missing required parameters:"), W("to"), W("(phone number)"), W("and"),
              W("message")>>
      [] name = "send_instagram_message" ->
            <<W("Missing required parameters:"), W("to"), W("(Instagram user ID)"),
              W("and"), W("message")>>
      [] OTHER -> <<W("Missing required parameter:"), W("doctype")>>

HelperMethod(name) ==
    CASE name = "find_doctypes" -> "findDocTypes"
      [] name = "get_module_list" -> "getModuleList"
      [] name = "get_doctypes_in_module" -> "getDocTypesInModule"
      [] name = "check_doctype_exists" -> "doesDocTypeExist"
      [] name = "check_document_exists" -> "doesDocumentExist"
      [] name = "get_document_count" -> "getDocumentCount"
      [] name = "get_naming_info" -> "getNamingSeriesInfo"
      [] name = "get_required_fields" -> "getRequiredFields"
      [] name = "send_whatsapp_message" ->
            "senaerp_integrations.whatsapp.doctype.whatsapp_message.whatsapp_message.send_whatsapp_message"
      [] name = "send_instagram_message" ->
            "senaerp_integrations.instagram.doctype.instagram_message.instagram_message.send_instagram_message"

HelperParams(name, args) ==
    CASE name = "find_doctypes" ->
            [searchTerm |-> Or(Get(args, "search_term"), ""),
             module |-> Get(args, "module"), limit |-> Or(Get(args, "limit"), "20")]
      [] name = "get_module_list" -> NoParams
      [] name = "get_doctypes_in_module" -> [module |-> Get(args, "module")]
      [] name = "check_document_exists" ->
            [doctype |-> Get(args, "doctype"), name |-> Get(args, "name")]
      [] name = "get_document_count" ->
            [doctype |-> Get(args, "doctype"), filters |-> Or(Get(args, "filters"), "{}")]
      [] name \in {"send_whatsapp_message", "send_instagram_message"} ->
            [to |-> Get(args, "to"), message |-> Get(args, "message"),
             content_type |-> Or(Get(args, "content_type"), "text"),
             attachment |-> Or(Get(args, "attachment"), "null"),
             reference_doctype |-> Or(Get(args, "reference_doctype"), "null"),
             reference_name |-> Or(Get(args, "reference_name"), "null")]
      [] OTHER -> [doctype |-> Get(args, "doctype")]

Channel(name) == IF name = "send_whatsapp_message" THEN "WhatsApp" ELSE "Instagram"

\* `${value}` in a template literal.
Interpolate(v) ==
    CASE v.t \in {"bool", "num", "str"} -> W(v.v)
      [] v.t = "obj" -> W("[object Object]")
      [] v.t = "arr" -> W("<array>")
      [] OTHER -> W(v.t)

\* The unwrapping by the presence of the wrapper key: the inner payload
\* whenever the result has a message member, whatever its value.
Unwrap_byKey(result) ==
    LET inner == IF result.t = "null" THEN JUndefined ELSE GetProp(result, "message")
    IN IF inner.t # "undefined" THEN inner ELSE result

\* result?.message || result
Unwrap(result) ==
    LET inner == IF result.t = "null" THEN JUndefined ELSE GetProp(result, "message")
    IN IF Truthy(inner) THEN inner ELSE result

\* data?.error || result?.error || 'Unknown error'
FailureReason(data, result) ==
    LET opt(v) == IF v.t \in {"null", "undefined"} THEN JUndefined ELSE GetProp(v, "error")
    IN IF Truthy(opt(data)) THEN Interpolate(opt(data))
       ELSE IF Truthy(opt(result)) THEN Interpolate(opt(result))
       ELSE W("Unknown error")

\* The translation of the file's earlier declaration of the handler: every
\* returned result is reported as sent, with the result as JSON text.
SendMessageResult_anyResult(name, args, result) ==
    RespondStep(<<"format", "respond">>,
                <<W(Channel(name)), W("message sent successfully."), W("Result:")>>
                    \o JSONstringify(result),
                FALSE)

\* The result of a send_*_message call, translated.
SendMessageResult(name, args, result) ==
    LET data == Unwrap(result)
    IN IF Truthy(data) /\ GetProp(data, "status") = JStr("success")
       THEN RespondStep(<<"format", "respond">>,
                <<W(Channel(name)), W("message sent successfully!"),
                  W("Document:"), Interpolate(GetProp(data, "name")),
                  W("Message ID:"), Interpolate(GetProp(data, "message_id")),
                  W("Status:"), Interpolate(GetProp(data, "doc_status")),
                  W("To:"), W(Get(args, "to")),
                  W("Content Type:"), W(Or(Get(args, "content_type"), "text"))>>,
                FALSE)
       ELSE RespondStep(<<"format", "respond">>,
                <<W("Failed to send"), W(Channel(name)), W("message:"),
                  FailureReason(data, result)>>,
                TRUE)

handleHelperToolCall(name, args) ==
    IF ~args.present
    THEN RespondStep(<<"validate", "reject", "respond">>,
                     <<W("Missing arguments for tool call")>>, TRUE)
    ELSE IF name \notin Range(HELPER_TOOLS)
    THEN RespondStep(<<"respond">>, <<W("Helper module doesn't handle tool:"), W(name)>>, TRUE)
    ELSE IF AnyMissing(args, HelperChecked(name))
    THEN RespondStep(<<"validate", "reject", "respond">>, HelperMissingMessage(name), TRUE)
    ELSE IF name = "get_api_instructions"
    THEN RespondStep(<<"validate", "respond">>, <<W("<instructions>")>>, FALSE)
    ELSE CallStep(<<"validate", "call">>, HelperMethod(name), HelperParams(name, args),
                  "result")

handleHelperToolCall_resume(name, args, st, out) ==
    IF out.kind = "err"
    THEN IF name \in {"send_whatsapp_message", "send_instagram_message"}
         THEN RespondStep(<<"catch", "respond">>,
                  <<W("Failed to send"), W(Channel(name)), W("message:")>> \o out.message,
                  TRUE)
         ELSE RespondStep(<<"catch", "respond">>,
                  <<W("Error in helper tool"), W(name)>> \o out.message, TRUE)
    ELSE IF name \in {"send_whatsapp_message", "send_instagram_message"}
    THEN SendMessageResult(name, args, out.val)
    ELSE IF name \in {"check_doctype_exists", "check_document_exists"}
    THEN RespondStep(<<"format", "respond">>,
                     JSONstringify(JObj(<<Member("exists", out.val)>>)), FALSE)
    ELSE IF name = "get_document_count"
    THEN RespondStep(<<"format", "respond">>,
                     JSONstringify(JObj(<<Member("count", out.val)>>)), FALSE)
    ELSE RespondStep(<<"format", "respond">>, JSONstringify(out.val), FALSE)

(***************************************************************************)
(* The schema API: getDocTypeSchema and getFieldOptions.  A function of    *)
(* the API runs up to its next remote call, returns a value or throws.     *)
(***************************************************************************)
FnCall(method, params, st, loc) ==
    [kind |-> "call", method |-> method, params |-> params, stage |-> st,
     locals |-> loc, val |-> JNull, message |-> <<>>]
FnReturn(v) ==
    [kind |-> "return", method |-> "", params |-> NoParams, stage |-> "",
     locals |-> NoLocals, val |-> v, message |-> <<>>]
FnThrow(message) ==
    [kind |-> "throw", method |-> "", params |-> NoParams, stage |-> "",
     locals |-> NoLocals, val |-> JNull, message |-> message]

\* errors.ts is not part of the sources at hand: handleApiError rethrows the
\* error it is given (its callers `return handleApiError(...)` on every path).
handleApiError(message) == FnThrow(message)

\* x || d for decoded values
OrElse(x, d) == IF Truthy(x) THEN x ELSE d

\* getDocTypeSchema after `await getDocument("DocType", doctype)`: the schema
\* object, or the error it throws.
SchemaOf(doctype, out) ==
    IF out.kind = "err" \/ ~Truthy(out.val)
    THEN FnThrow(<<W("Could not retrieve schema for DocType"), W(doctype),
                   W("using document API")>>)
    ELSE FnReturn(JObj(<<
            Member("name", JStr(doctype)),
            Member("label", OrElse(GetProp(out.val, "name"), JStr(doctype))),
            Member("issingle", JBool(GetProp(out.val, "issingle") = JNum("1"))),
            Member("istable", JBool(GetProp(out.val, "istable") = JNum("1"))),
            Member("custom", JBool(GetProp(out.val, "custom") = JNum("1"))),
            Member("fields", OrElse(GetProp(out.val, "fields"), JArr(<<>>))),
            Member("permissions", OrElse(GetProp(out.val, "permissions"), JArr(<<>>)))>>))

getDocTypeSchema(doctype) ==
    IF ~ArgTruthy(doctype) THEN handleApiError(<<W("DocType name is required")>>)
    ELSE FnCall("getDocument", [doctype |-> "DocType", name |-> doctype], "schema", NoLocals)

getDocTypeSchema_resume(doctype, out) ==
    LET r == SchemaOf(doctype, out)
    IN IF r.kind = "throw" THEN handleApiError(r.message) ELSE r

\* fields.find((f) => f.fieldname === fieldname): the first match, or undefined.
RECURSIVE FindField(_, _)
FindField(fields, fieldname) ==
    IF fields = <<>> THEN JUndefined
    ELSE IF GetProp(Head(fields), "fieldname") = JStr(fieldname) THEN Head(fields)
    ELSE FindField(Tail(fields), fieldname)

\* fields.find((f) => f.fieldname === "title" || f.bold === 1)
RECURSIVE FindTitleField(_)
FindTitleField(fields) ==
    IF fields = <<>> THEN JUndefined
    ELSE IF GetProp(Head(fields), "fieldname") = JStr("title")
            \/ GetProp(Head(fields), "bold") = JNum("1")
         THEN Head(fields)
    ELSE FindTitleField(Tail(fields))

\* options.split("\n")
RECURSIVE SplitLines(_, _, _)
SplitLines(cs, cur, acc) ==
    IF cs = <<>> THEN Append(acc, cur)
    ELSE IF Head(cs) = "\n" THEN SplitLines(Tail(cs), <<>>, Append(acc, cur))
    ELSE SplitLines(Tail(cs), Append(cur, Head(cs)), acc)

WhiteSpace == {" ", "\t", "\r", "\n"}

\* option.trim()
RECURSIVE TrimStart(_), TrimEnd(_)
TrimStart(cs) ==
    IF cs # <<>> /\ Head(cs) \in WhiteSpace THEN TrimStart(Tail(cs)) ELSE cs
TrimEnd(cs) ==
    IF cs # <<>> /\ cs[Len(cs)] \in WhiteSpace THEN TrimEnd(SubSeq(cs, 1, Len(cs) - 1))
    ELSE cs
Trim(cs) == TrimEnd(TrimStart(cs))

\* split("\n").filter(o => o.trim() !== '').map(o => ({value: o.trim(), label: o.trim()}))
RECURSIVE OptionsOfLines(_)
OptionsOfLines(ls) ==
    IF ls = <<>> THEN <<>>
    ELSE IF Trim(Head(ls)) # <<>>
         THEN <<JObj(<<Member("value", JChars(Trim(Head(ls)))),
                       Member("label", JChars(Trim(Head(ls))))>>)>>
              \o OptionsOfLines(Tail(ls))
    ELSE OptionsOfLines(Tail(ls))

\* The options without the trim and without the filter of blank entries.
SelectOptions_untrimmed(options) ==
    LET ls == SplitLines(options.c, <<>>, <<>>)
    IN JArr([i \in 1..Len(ls) |-> JObj(<<Member("value", JChars(ls[i])),
                                         Member("label", JChars(ls[i]))>>)])

SelectOptions(options) == JArr(OptionsOfLines(SplitLines(options.c, <<>>, <<>>)))

\* `${item.name} - ${item[title]}`
LabelOf(item, title) ==
    JStr(Interpolate(GetProp(item, "name")).s \o " - " \o Interpolate(GetProp(item, title)).s)

\* response.map(item => ({value: item.name, label})); title is the title
\* field's name, "" when there is none.
RECURSIVE MapItems(_, _)
MapItems(items, title) ==
    IF items = <<>> THEN <<>>
    ELSE LET item == Head(items)
             label == IF title # "" /\ Truthy(GetProp(item, title))
                      THEN LabelOf(item, title) ELSE GetProp(item, "name")
         IN <<JObj(<<Member("value", GetProp(item, "name")), Member("label", label)>>)>>
            \o MapItems(Tail(items), title)

DocListCall(loc, fieldsArg, st) ==
    FnCall("getDocList", [doctype |-> loc.linked, limit |-> "50", fields |-> fieldsArg],
           st, loc)

getFieldOptions(doctype, fieldname) ==
    IF ~ArgTruthy(doctype) THEN handleApiError(<<W("DocType name is required")>>)
    ELSE IF ~ArgTruthy(fieldname) THEN handleApiError(<<W("Field name is required")>>)
    ELSE FnCall("getDocument", [doctype |-> "DocType", name |-> doctype], "schema", NoLocals)

\* After the schema of the DocType has been fetched or has failed.
FieldOptionsOfSchema(doctype, fieldname, out) ==
    LET sch == getDocTypeSchema_resume(doctype, out)
        fields == GetProp(sch.val, "fields")
        field == FindField(fields.e, fieldname)
        ftype == GetProp(field, "fieldtype")
        options == GetProp(field, "options")
    IN IF sch.kind = "throw" THEN handleApiError(sch.message)
       ELSE IF fields.t # "arr"
       THEN handleApiError(<<W("Invalid schema returned for DocType"), W(doctype)>>)
       ELSE IF field.t = "undefined"
       THEN handleApiError(<<W("Field"), W(fieldname), W("not found in DocType"), W(doctype)>>)
       ELSE IF ftype = JStr("Link")
       THEN IF ~Truthy(options)
            THEN handleApiError(<<W("Link field"), W(fieldname),
                                  W("has no options (linked DocType) specified")>>)
            ELSE IF options.t # "str"
            THEN handleApiError(<<W("Invalid linked DocType")>>)
            ELSE FnCall("getDocument", [doctype |-> "DocType", name |-> options.v],
                        "linked", [linked |-> options.v, title |-> ""])
       ELSE IF ftype = JStr("Select")
       THEN IF ~Truthy(options) THEN FnReturn(JArr(<<>>))
            ELSE IF options.t # "chars"
            THEN handleApiError(<<W("field.options.split is not a function")>>)
            ELSE FnReturn(SelectOptions(options))
       ELSE FnReturn(JArr(<<>>))

\* The name of the title field of a linked schema ("" when it has none).
TitleOf(fields) ==
    LET f == FindTitleField(fields)
    IN IF Truthy(f) /\ GetProp(f, "fieldname").t = "str" THEN GetProp(f, "fieldname").v
       ELSE ""

getFieldOptions_resume(doctype, fieldname, st, out, loc) ==
    IF st = "schema" THEN FieldOptionsOfSchema(doctype, fieldname, out)
    ELSE IF st = "linked"
    THEN LET sch == SchemaOf(loc.linked, out)
             fields == GetProp(sch.val, "fields")
         IN IF sch.kind = "throw" \/ fields.t # "arr"
            THEN DocListCall(loc, "[name]", "fallback")
            ELSE LET title == TitleOf(fields.e)
                 IN DocListCall([loc EXCEPT !.title = title],
                                IF title # "" THEN "[name, " \o title \o "]" ELSE "[name]",
                                "list")
    ELSE IF st = "list"
    THEN IF out.kind = "err" \/ ~Truthy(out.val) \/ out.val.t # "arr"
         THEN DocListCall(loc, "[name]", "fallback")
         ELSE FnReturn(JArr(MapItems(out.val.e, loc.title)))
    ELSE \* st = "fallback"
         IF out.kind = "err" THEN handleApiError(out.message)
         ELSE IF ~Truthy(out.val)
         THEN handleApiError(<<W("Invalid response for DocType"), W(loc.linked)>>)
         ELSE IF out.val.t # "arr"
         THEN handleApiError(<<W("response.map is not a function")>>)
         ELSE FnReturn(JArr(MapItems(out.val.e, "")))

(***************************************************************************)
(* handleSchemaToolCall and handleDocumentToolCall.  schema-operations.ts  *)
(* and document-operations.ts are not part of the sources at hand; the two *)
(* handlers follow the generic group-handler contract of the design: the   *)
(* arguments are validated, the API function is called, its result is      *)
(* returned as JSON text and its failure as an error response.             *)
(***************************************************************************)
SchemaChecked(name) ==
    IF name = "get_field_options" THEN {"doctype", "fieldname"} ELSE {"doctype"}

SchemaMissingMessage(name) ==
    IF name = "get_field_options"
    THEN <<W("Missing required parameters:"), W("doctype"), W("and"), W("fieldname")>>
    ELSE <<W("Missing required parameter:"), W("doctype")>>

\* What the handler makes of a step of the API function it awaits.
HandlerStepOf(r, trace) ==
    CASE r.kind = "call" -> CallStepL(trace \o <<"call">>, r.method, r.params, r.stage, r.locals)
      [] r.kind = "return" -> RespondStep(trace \o <<"format", "respond">>,
                                          JSONstringify(r.val), FALSE)
      [] r.kind = "throw" -> RespondStep(trace \o <<"throw", "catch", "respond">>,
                                         ErrorText(r.message), TRUE)

handleSchemaToolCall(name, args) ==
    IF ~args.present
    THEN RespondStep(<<"validate", "reject", "respond">>,
                     <<W("Missing arguments for tool call")>>, TRUE)
    ELSE IF name \notin Range(SCHEMA_TOOLS)
    THEN RespondStep(<<"respond">>, <<W("Schema module doesn't handle tool:"), W(name)>>, TRUE)
    ELSE IF AnyMissing(args, SchemaChecked(name))
    THEN RespondStep(<<"validate", "reject", "respond">>, SchemaMissingMessage(name), TRUE)
    ELSE IF name = "get_field_options"
    THEN HandlerStepOf(getFieldOptions(Get(args, "doctype"), Get(args, "fieldname")),
                       <<"validate">>)
    ELSE HandlerStepOf(getDocTypeSchema(Get(args, "doctype")), <<"validate">>)

handleSchemaToolCall_resume(name, args, st, out, loc) ==
    IF name = "get_field_options"
    THEN HandlerStepOf(getFieldOptions_resume(Get(args, "doctype"), Get(args, "fieldname"),
                                              st, out, loc), <<>>)
    ELSE HandlerStepOf(getDocTypeSchema_resume(Get(args, "doctype"), out), <<>>)

handleDocumentToolCall(name, args) ==
    IF ~args.present
    THEN RespondStep(<<"validate", "reject", "respond">>,
                     <<W("Missing arguments for tool call")>>, TRUE)
    ELSE IF name \notin Range(DOCUMENT_TOOLS)
    THEN RespondStep(<<"respond">>, <<W("Document module doesn't handle tool:"), W(name)>>, TRUE)
    ELSE IF AnyMissing(args, {"doctype"})
    THEN RespondStep(<<"validate", "reject", "respond">>, SchemaMissingMessage(name), TRUE)
    ELSE CallStep(<<"validate", "call">>, name, [doctype |-> Get(args, "doctype")], "result")

handleDocumentToolCall_resume(name, args, st, out) ==
    IF out.kind = "err"
    THEN RespondStep(<<"catch", "respond">>, ErrorText(out.message), TRUE)
    ELSE RespondStep(<<"format", "respond">>, JSONstringify(out.val), FALSE)

(***************************************************************************)
(* The MCP server of index.ts: list_tools and the tool-call dispatcher.    *)
(***************************************************************************)
\* The tool arrays the groups export, as the modules construct them.
Registry == [g \in Range(GroupOrder) |-> GroupTools(g)]

\* A list_tools handler that collects the tools by pushing the other groups'
\* tools onto the exported document array.
list_tools_accumulating(reg) ==
    LET all == reg.document \o reg.schema \o reg.helper
    IN [tools |-> <<"call_method">> \o all \o <<"ping">>,
        registry |-> [reg EXCEPT !.document = all]]

\* ListToolsRequestSchema handler: the tools array, a new array the exported
\* arrays are spread into, and the exported arrays after the handler.
list_tools(reg) ==
    [tools |-> <<"call_method">> \o reg.document \o reg.schema \o reg.helper \o <<"ping">>,
     registry |-> reg]

\* Dispatch with the helper handler as the default branch.
Dispatch_helperDefault(name) ==
    IF name \in Range(DOCUMENT_TOOLS) THEN "document"
    ELSE IF name \in Range(SCHEMA_TOOLS) THEN "schema"
    ELSE IF name = "ping" THEN "ping"
    ELSE "helper"

\* Dispatch without the ping branch.
Dispatch_noPing(name) ==
    IF name \in Range(DOCUMENT_TOOLS) THEN "document"
    ELSE IF name \in Range(SCHEMA_TOOLS) THEN "schema"
    ELSE IF name \in Range(HELPER_TOOLS) THEN "helper"
    ELSE "unknown"

\* CallToolRequestSchema handler: the group a tool name is routed to.
Dispatch(name) ==
    IF name \in Range(DOCUMENT_TOOLS) THEN "document"
    ELSE IF name \in Range(SCHEMA_TOOLS) THEN "schema"
    ELSE IF name \in Range(HELPER_TOOLS) THEN "helper"
    ELSE IF name = "ping" THEN "ping"
    ELSE "unknown"

\* The responses the dispatcher builds itself.
PingResponse == TextResponse(<<W("pong")>>, FALSE)
UnknownToolResponse(name) == TextResponse(<<W("Unknown tool:"), W(name)>>, TRUE)

\* The entry segment of group g's handler.
HandlerEntry(g, name, args) ==
    CASE g = "document" -> handleDocumentToolCall(name, args)
      [] g = "schema" -> handleSchemaToolCall(name, args)
      [] g = "helper" -> handleHelperToolCall(name, args)
      [] g = "blueprint" -> handleBlueprintToolCall(name, args)
      [] g = "doctype" -> handleDoctypeOperationsToolCall(name, args)
      [] g = "workflow" -> handleWorkflowToolCall(name, args)

\* The segment of group g's handler after an await.
HandlerResume(g, name, args, st, out, loc) ==
    CASE g = "document" -> handleDocumentToolCall_resume(name, args, st, out)
      [] g = "schema" -> handleSchemaToolCall_resume(name, args, st, out, loc)
      [] g = "helper" -> handleHelperToolCall_resume(name, args, st, out)
      [] g = "blueprint" -> handleBlueprintToolCall_resume(name, args, st, out)
      [] g = "doctype" -> handleDoctypeOperationsToolCall_resume(name, args, st, out)
      [] g = "workflow" -> handleWorkflowToolCall_resume(name, args, st, out)

(***************************************************************************)
(* The remote platform.  frappe-api.ts is not part of the sources at hand: *)
(* a remote call returns a decoded JSON value or raises an error.          *)
(***************************************************************************)
NoOutcome == [kind |-> "none", val |-> JNull, message |-> <<>>]
Returned(v) == [kind |-> "ok", val |-> v, message |-> <<>>]
Raised(message) == [kind |-> "err", val |-> JNull, message |-> message]

RemoteErrors == {<<W("Request failed with status code 500")>>}

\* Results of the platform's methods.
Results ==
    {JNull, JBool(TRUE), JNum("0"), JStr("ok"), JArr(<<>>), JObj(<<>>),
     JArr(<<JObj(<<Member("name", JStr("BP-1"))>>)>>),
     JObj(<<Member("success", JBool(TRUE))>>),
     JObj(<<Member("success", JBool(FALSE)), Member("error", JStr("denied"))>>),
     JObj(<<Member("success", JBool(TRUE)), Member("name", JStr("X"))>>),
     JObj(<<Member("success", JNull)>>),
     JObj(<<Member("name", JStr("X"))>>),
     JObj(<<Member("status", JStr("success")), Member("name", JStr("MSG-1"))>>),
     JObj(<<Member("status", JStr("failed")), Member("error", JStr("no route"))>>),
     JObj(<<Member("message",
                   JObj(<<Member("status", JStr("success")),
                          Member("message_id", JStr("wamid.1"))>>))>>),
     JObj(<<Member("message", JObj(<<Member("status", JStr("queued"))>>)),
            Member("error", JStr("late"))>>),
     JObj(<<Member("status", JStr("success")), Member("message", JStr(""))>>),
     JObj(<<Member("status", JStr("error")), Member("message", JStr("not sent"))>>)}

Field(fieldname, fieldtype, options) ==
    JObj(<<Member("fieldname", JStr(fieldname)), Member("fieldtype", JStr(fieldtype)),
           Member("options", options)>>)

DocOf(fields) == JObj(<<Member("name", JStr("D")), Member("fields", fields)>>)

\* Results of getDocument("DocType", ...): DocType documents with one field
\* named as the request's fieldname ("v"), or without it.
DocResults ==
    {JNull,
     JObj(<<Member("name", JStr("D"))>>),
     DocOf(JObj(<<>>)),
     DocOf(JArr(<<Field("other", "Data", JNull)>>)),
     DocOf(JArr(<<Field("v", "Data", JNull)>>)),
     DocOf(JArr(<<Field("v", "Table", JStr("Child"))>>)),
     DocOf(JArr(<<Field("v", "Link", JNull)>>)),
     DocOf(JArr(<<Field("v", "Link", JStr("Target"))>>)),
     DocOf(JArr(<<Field("title", "Data", JNull), Field("v", "Link", JStr("Target"))>>)),
     DocOf(JArr(<<Field("v", "Select", JNull)>>)),
     DocOf(JArr(<<Field("v", "Select", JChars(<<"A", "\n", " ", "\n", " ", "B", " ">>))>>)),
     DocOf(JArr(<<Field("v", "Select", JChars(<<>>))>>)),
     DocOf(JArr(<<Field("v", "Select", JChars(<<"\n", "N", " ", "Y", "\t", "\n", "\n", "Z">>)),
                  Field("v", "Link", JStr("Target"))>>))}

\* Results of getDocList.
ListResults ==
    {JNull, JObj(<<>>), JArr(<<>>),
     JArr(<<JObj(<<Member("name", JStr("T-1"))>>)>>),
     JArr(<<JObj(<<Member("name", JStr("T-1")), Member("title", JStr("First"))>>),
            JObj(<<Member("name", JStr("T-2"))>>)>>)}

RemoteResults(method) ==
    IF method = "getDocument" THEN DocResults
    ELSE IF method = "getDocList" THEN ListResults
    ELSE Results

(***************************************************************************)
(* The HTTP endpoint of main() (index.ts): the requests on /mcp.  A        *)
(* request is a record: its method, what its body is to express.json(),   *)
(* the position of its route handler, the server and transport objects     *)
(* it constructed (0: none), the objects its 'close' listener closes, and  *)
(* what was written to its response.  Objects are identified by the order  *)
(* of their construction.                                                  *)
(***************************************************************************)
MaxRequests == 2

RequestIds == 1..MaxRequests

Methods == {"POST", "GET", "DELETE"}

\* The request body as express.json() meets it: one it passes on (no body,
\* another content type, well-formed JSON) or JSON text that does not parse.
Bodies == {"passes", "malformed"}

NoConn ==
    [method |-> "", body |-> "", at |-> "none", server |-> 0, transport |-> 0,
     onClose |-> {}, connected |-> FALSE, headersSent |-> FALSE, written |-> <<>>,
     resClosed |-> FALSE, raised |-> FALSE, unhandled |-> FALSE, dispatched |-> FALSE]

\* {jsonrpc: "2.0", error: {code, message}, id: null}
JsonRpcError(code, message) ==
    JObj(<<Member("jsonrpc", JStr("2.0")),
           Member("error", JObj(<<Member("code", JNum(code)),
                                  Member("message", JStr(message))>>)),
           Member("id", JNull)>>)

HttpResponse(status, body) == [status |-> status, body |-> body]

\* Writing the status line and body of a response: a second write raises
\* ERR_HTTP_HEADERS_SENT, which nothing in an async route handler catches.
resWrite(c, resp) ==
    IF c.headersSent THEN [c EXCEPT !.unhandled = TRUE]
    ELSE [c EXCEPT !.headersSent = TRUE, !.written = Append(@, resp)]

\* app.use(express.json()): a body that does not parse is passed to next(err).
expressJson(body) == IF body = "malformed" THEN "error" ELSE "next"

\* No error middleware is registered: the framework's default error handler
\* answers with the status of the parse error and an HTML page.
DefaultErrorResponse == HttpResponse(400, <<W("<!DOCTYPE html>"), W("SyntaxError")>>)

\* createMcpServer() with a module-level server constructed once.
createMcpServer_singleton(n) == 1

\* createMcpServer(): a new Server, the (n+1)-th object constructed.
createMcpServer(n) == n + 1

\* new StreamableHTTPServerTransport({...})
NewTransport(n) == n + 1

\* The POST handler without its 'close' listener.
PostEntry_withoutCloseListener(c, n) ==
    LET server == createMcpServer(n)
        transport == NewTransport(n + 1)
    IN [c EXCEPT !.server = server, !.transport = transport, !.at = "connect"]

\* app.post('/mcp'), up to `await server.connect(transport)`.
PostEntry(c, n) ==
    LET server == createMcpServer(n)
        transport == NewTransport(n + 1)
    IN [c EXCEPT !.server = server, !.transport = transport,
                 !.onClose = {server, transport}, !.at = "connect"]

InternalError ==
    HttpResponse(500, JSONstringify(JsonRpcError("-32603", "Internal server error")))

\* The catch without the test of res.headersSent.
PostCatch_alwaysWrites(c) ==
    resWrite([c EXCEPT !.raised = TRUE, !.at = "done"], InternalError)

\* app.post('/mcp'), the catch.
PostCatch(c) ==
    IF ~c.headersSent
    THEN resWrite([c EXCEPT !.raised = TRUE, !.at = "done"], InternalError)
    ELSE [c EXCEPT !.raised = TRUE, !.at = "done"]

MethodNotAllowed ==
    HttpResponse(405, JSONstringify(JsonRpcError("-32000", "Method not allowed.")))

\* app.get('/mcp')
GetMcp(c) == resWrite([c EXCEPT !.at = "done"], MethodNotAllowed)

\* app.delete('/mcp')
DeleteMcp(c) == resWrite([c EXCEPT !.at = "done"], MethodNotAllowed)

\* The middleware chain and the first segment of the route handler.
Route(c, n) ==
    IF expressJson(c.body) = "error"
    THEN resWrite([c EXCEPT !.at = "done"], DefaultErrorResponse)
    ELSE IF c.method = "POST" THEN PostEntry(c, n)
    ELSE IF c.method = "GET" THEN GetMcp(c)
    ELSE DeleteMcp(c)

\* validateApiCredentials(): raises when the credentials are missing.
validateApiCredentials(cred) == IF cred = "valid" THEN "ok" ELSE "throw"

\* main() listening whatever the validation found.
main_ignoresValidation(cred) == "listening"

\* main(): validation, then the routes and app.listen; a rejection of main()
\* ends in process.exit(1).
main(cred) == IF validateApiCredentials(cred) = "throw" THEN "aborted" ELSE "listening"

(***************************************************************************)
(* The static hints (part_000): the module variable staticHints holds two  *)
(* Maps from a target to its hints.  A Map is the list of its entries in   *)
(* insertion order, which is the order Map.entries() iterates in.          *)
(***************************************************************************)
\* new Map()
EmptyMap == <<>>

\* map.get(key) || []
RECURSIVE MapGetOr(_, _)
MapGetOr(map, key) ==
    IF map = <<>> THEN <<>>
    ELSE IF Head(map).key = key THEN Head(map).val
    ELSE MapGetOr(Tail(map), key)

\* map.set(key, value): an existing key keeps its place.
MapSet(map, key, value) ==
    IF \E i \in 1..Len(map) : map[i].key = key
    THEN [i \in 1..Len(map) |-> IF map[i].key = key THEN [key |-> key, val |-> value]
                                ELSE map[i]]
    ELSE Append(map, [key |-> key, val |-> value])

\* {doctype: new Map(), workflow: new Map()}
EmptyHints == [doctype |-> EmptyMap, workflow |-> EmptyMap]

\* The loop over the hints of one file without the test of a doctype
\* hint's text.
RECURSIVE AddHints_noHintTest(_, _)
AddHints_noHintTest(tables, hints) ==
    IF hints = <<>> THEN [tables |-> tables, threw |-> FALSE]
    ELSE LET hint == Head(hints)
             type == GetProp(hint, "type")
             target == GetProp(hint, "target")
             steps == GetProp(hint, "steps")
         IN IF hint.t = "null" THEN [tables |-> tables, threw |-> TRUE]
            ELSE IF ~Truthy(type) \/ ~Truthy(target)
            THEN AddHints_noHintTest(tables, Tail(hints))
            ELSE IF type = JStr("workflow") /\ (~Truthy(steps) \/ steps.t # "arr")
            THEN AddHints_noHintTest(tables, Tail(hints))
            ELSE IF type \notin {JStr("doctype"), JStr("workflow")}
            THEN [tables |-> tables, threw |-> TRUE]
            ELSE LET existing == MapGetOr(tables[type.v], target)
                 IN AddHints_noHintTest([tables EXCEPT ![type.v] =
                                            MapSet(@, target, Append(existing, hint))],
                                        Tail(hints))

\* The loop over the hints of one file; threw: an entry raised a TypeError
\* (reading a property of null, or map.get on the table of an unknown type).
RECURSIVE AddHints(_, _)
AddHints(tables, hints) ==
    IF hints = <<>> THEN [tables |-> tables, threw |-> FALSE]
    ELSE LET hint == Head(hints)
             type == GetProp(hint, "type")
             target == GetProp(hint, "target")
             steps == GetProp(hint, "steps")
         IN IF hint.t = "null" THEN [tables |-> tables, threw |-> TRUE]
            ELSE IF ~Truthy(type) \/ ~Truthy(target) THEN AddHints(tables, Tail(hints))
            ELSE IF type = JStr("doctype") /\ ~Truthy(GetProp(hint, "hint"))
            THEN AddHints(tables, Tail(hints))
            ELSE IF type = JStr("workflow") /\ (~Truthy(steps) \/ steps.t # "arr")
            THEN AddHints(tables, Tail(hints))
            ELSE IF type \notin {JStr("doctype"), JStr("workflow")}
            THEN [tables |-> tables, threw |-> TRUE]
            ELSE LET existing == MapGetOr(tables[type.v], target)
                 IN AddHints([tables EXCEPT ![type.v] =
                                 MapSet(@, target, Append(existing, hint))],
                             Tail(hints))

\* fs.readFile awaited, so that the event loop runs between two files.
ReadFile_async(file) == [content |-> file.content, yield |-> TRUE]

\* fs.readFileSync(filePath, 'utf8')
ReadFile(file) == [content |-> file.content, yield |-> FALSE]

\* The body of the loop over the files without its try/catch.
processHintFile_noCatch(tables, content) ==
    LET parsed == JSONparse(content)
        added == AddHints(tables, parsed.val.e)
    IN IF ~parsed.ok THEN [tables |-> tables, raised |-> TRUE]
       ELSE IF parsed.val.t # "arr" THEN [tables |-> tables, raised |-> FALSE]
       ELSE [tables |-> added.tables, raised |-> added.threw]

\* The body of the loop over the files: whatever raises inside is caught
\* and logged, and the loop goes on with the next file.
processHintFile(tables, content) ==
    LET parsed == JSONparse(content)
    IN IF ~parsed.ok THEN [tables |-> tables, raised |-> FALSE]
       ELSE IF parsed.val.t # "arr" THEN [tables |-> tables, raised |-> FALSE]
       ELSE [tables |-> AddHints(tables, parsed.val.e).tables, raised |-> FALSE]

\* staticHints.doctype.get(doctype) || []
getDocTypeHints(tables, doctype) == MapGetOr(tables.doctype, doctype)

\* staticHints.workflow.get(workflow) || []
getWorkflowHints(tables, workflow) == MapGetOr(tables.workflow, workflow)

\* hint.related_doctypes && hint.related_doctypes.includes(doctype)
RelatedTo(hint, doctype) ==
    LET related == GetProp(hint, "related_doctypes")
    IN Truthy(related) /\ related.t = "arr" /\ doctype \in Range(related.e)

RECURSIVE SelectRelated(_, _)
SelectRelated(hints, doctype) ==
    IF hints = <<>> THEN <<>>
    ELSE (IF RelatedTo(Head(hints), doctype) THEN <<Head(hints)>> ELSE <<>>)
         \o SelectRelated(Tail(hints), doctype)

RECURSIVE WorkflowsIn(_, _)
WorkflowsIn(map, doctype) ==
    IF map = <<>> THEN <<>>
    ELSE SelectRelated(Head(map).val, doctype) \o WorkflowsIn(Tail(map), doctype)

findWorkflowsForDocType(tables, doctype) == WorkflowsIn(tables.workflow, doctype)

\* The hints the files hold.
DocHint(target, text) ==
    JObj(<<Member("type", JStr("doctype")), Member("target", JStr(target)),
           Member("hint", JStr(text))>>)

WorkflowHint(target, steps, related) ==
    JObj(<<Member("type", JStr("workflow")), Member("target", JStr(target)),
           Member("steps", steps), Member("related_doctypes", JArr(<<JStr(related)>>))>>)

HintFile(name, ext, content) == [name |-> name, ext |-> ext, content |-> content]

\* A JSON text cut short before its last token.
Truncated(text) == SubSeq(text, 1, Len(text) - 1)

\* The files a hints directory may hold, in the order of their names.
HintFiles ==
    << HintFile("a_broken", ".json",
           Truncated(JSONstringify(JArr(<<DocHint("Customer", "from the broken file")>>)))),
       HintFile("customer", ".json",
           JSONstringify(JArr(<<DocHint("Customer", "h1"),
                                JObj(<<Member("type", JStr("doctype")),
                                       Member("target", JStr("Customer"))>>),
                                DocHint("Customer", "h2"),
                                DocHint("Customer", ""),
                                JObj(<<Member("target", JStr("Customer")),
                                       Member("hint", JStr("no type"))>>),
                                JObj(<<Member("type", JStr("doctype")),
                                       Member("hint", JStr("no target"))>>),
                                JObj(<<Member("type", JStr("workflow")),
                                       Member("target", JStr("Close"))>>),
                                DocHint("Item", "h5")>>))),
       HintFile("mixed", ".json",
           JSONstringify(JArr(<<DocHint("Item", "h3"),
                                JObj(<<Member("type", JStr("other")),
                                       Member("target", JStr("Item"))>>),
                                DocHint("Item", "h4")>>))),
       HintFile("notes", ".txt",
           JSONstringify(JArr(<<DocHint("Customer", "from the text file")>>))),
       HintFile("object", ".json", JSONstringify(DocHint("Item", "not in an array"))),
       HintFile("workflows", ".json",
           JSONstringify(JArr(<<
               WorkflowHint("Onboard", JArr(<<JStr("s1")>>), "Customer"),
               WorkflowHint("Onboard", JStr("not an array"), "Customer"),
               WorkflowHint("Close", JArr(<<JStr("s2")>>), "Item"),
               JNull,
               DocHint("Customer", "after the null")>>))) >>

\* A directory holds some of the files; it may also be missing.
Directories == SUBSET (1..Len(HintFiles))

\* fs.readdirSync(hintsDir): the names in order.
RECURSIVE Listing(_, _)
Listing(dir, i) ==
    IF i > Len(HintFiles) THEN <<>>
    ELSE (IF i \in dir THEN <<HintFiles[i]>> ELSE <<>>) \o Listing(dir, i + 1)

readdirSync(dir) == Listing(dir, 1)

\* .filter(file => file.endsWith('.json'))
RECURSIVE JsonFiles(_)
JsonFiles(files) ==
    IF files = <<>> THEN <<>>
    ELSE (IF Head(files).ext = ".json" THEN <<Head(files)>> ELSE <<>>)
         \o JsonFiles(Tail(files))

NoLoad ==
    [at |-> "idle", started |-> FALSE, dir |-> {}, missing |-> FALSE, files |-> <<>>,
     previous |-> EmptyHints, unchanged |-> FALSE, raised |-> FALSE, yield |-> FALSE]

NoLookup == [fn |-> "", arg |-> "", result |-> <<>>, loading |-> FALSE]

\* One statement of loadStaticHints() after the tables were replaced: the
\* directory listing, then one file per turn of the loop.
loadStaticHints_step(ld, tables) ==
    IF ld.at = "readdir"
    THEN IF ld.missing
         THEN [loader |-> [ld EXCEPT !.at = "idle"], tables |-> tables]
         ELSE [loader |-> [ld EXCEPT !.at = "files", !.files = JsonFiles(readdirSync(ld.dir))],
               tables |-> tables]
    ELSE IF ld.files = <<>>
    THEN [loader |-> [ld EXCEPT !.at = "idle", !.yield = FALSE], tables |-> tables]
    ELSE LET read == ReadFile(Head(ld.files))
             done == processHintFile(tables, read.content)
         IN IF done.raised
            THEN [loader |-> [ld EXCEPT !.at = "idle", !.raised = TRUE, !.yield = FALSE],
                  tables |-> done.tables]
            ELSE [loader |-> [ld EXCEPT !.files = Tail(@), !.yield = read.yield],
                  tables |-> done.tables]

(***************************************************************************)
(* The state machine of one tool call at a time.                           *)
(***************************************************************************)
NoRequest == [name |-> "", args |-> NoArgs]

\* The exported group handlers, each callable with any request.
ExportedHandlers == {"helper", "blueprint", "doctype", "workflow"}

Init ==
    /\ pc = "idle"
    /\ entry = "none"
    /\ req = NoRequest
    /\ handler = "none"
    /\ stage = ""
    /\ locals = NoLocals
    /\ outcome = NoOutcome
    /\ remoteCalls = <<>>
    /\ responses = <<>>
    /\ thrown = FALSE
    /\ invoked = <<>>
    /\ log = <<>>
    /\ listed = <<>>
    /\ registry = Registry
    /\ phase = "starting"
    /\ credentials = "unchecked"
    /\ conns = [r \in RequestIds |-> NoConn]
    /\ instances = 0
    /\ closed = {}
    /\ staticHints = EmptyHints
    /\ loader = NoLoad
    /\ lookups = NoLookup

\* The effect of one segment of a handler on the call.
Take(step) ==
    /\ log' = log \o step.trace
    /\ CASE step.kind = "call" ->
              /\ pc' = "await"
              /\ remoteCalls' = Append(remoteCalls, [method |-> step.method,
                                                     params |-> step.params])
              /\ stage' = step.stage
              /\ locals' = step.locals
              /\ UNCHANGED <<responses, thrown>>
         [] step.kind = "respond" ->
              /\ pc' = "done"
              /\ responses' = Append(responses, step.resp)
              /\ UNCHANGED <<remoteCalls, stage, locals, thrown>>
         [] step.kind = "throw" ->
              /\ pc' = "done"
              /\ thrown' = TRUE
              /\ UNCHANGED <<remoteCalls, stage, locals, responses>>

\* tools/list: the server answers with the aggregated tool list.
ListTools ==
    /\ pc = "idle"
    /\ listed' = list_tools(registry).tools
    /\ registry' = list_tools(registry).registry
    /\ UNCHANGED <<httpVars, hintVars>>
    /\ UNCHANGED <<pc, entry, req, handler, stage, locals, outcome, remoteCalls,
                   responses, thrown, invoked, log>>

\* tools/call through the dispatcher of index.ts, up to the first await.
CallTool(name, args) ==
    /\ pc = "idle"
    /\ entry' = "dispatch"
    /\ req' = [name |-> name, args |-> args]
    /\ handler' = Dispatch(name)
    /\ UNCHANGED <<listed, registry, httpVars, hintVars>>
    /\ IF Dispatch(name) \in {"ping", "unknown"}
       THEN /\ pc' = "done"
            /\ responses' = <<IF Dispatch(name) = "ping" THEN PingResponse
                              ELSE UnknownToolResponse(name)>>
            /\ invoked' = <<>>
            /\ log' = <<"respond">>
            /\ UNCHANGED <<stage, locals, outcome, remoteCalls, thrown>>
       ELSE /\ invoked' = <<Dispatch(name)>>
            /\ UNCHANGED outcome
            /\ Take(HandlerEntry(Dispatch(name), name, args))

\* An exported group handler called with a request, up to the first await.
InvokeHandler(g, name, args) ==
    /\ pc = "idle"
    /\ entry' = "direct"
    /\ req' = [name |-> name, args |-> args]
    /\ handler' = g
    /\ invoked' = <<g>>
    /\ UNCHANGED <<listed, registry, outcome, httpVars, hintVars>>
    /\ Take(HandlerEntry(g, name, args))

\* The remote platform answers the call in flight.
RemoteReturns ==
    /\ pc = "await"
    /\ pc' = "ready"
    /\ \E v \in RemoteResults(remoteCalls[Len(remoteCalls)].method) :
            outcome' = Returned(v)
    /\ log' = Append(log, "return")
    /\ UNCHANGED <<entry, req, handler, stage, locals, remoteCalls, responses, thrown,
                   invoked, listed, registry, httpVars, hintVars>>

\* The remote call in flight fails.
RemoteRaises ==
    /\ pc = "await"
    /\ pc' = "ready"
    /\ \E message \in RemoteErrors : outcome' = Raised(message)
    /\ log' = Append(log, "raise")
    /\ UNCHANGED <<entry, req, handler, stage, locals, remoteCalls, responses, thrown,
                   invoked, listed, registry, httpVars, hintVars>>

\* The handler continues after its await.
Resume ==
    /\ pc = "ready"
    /\ Take(HandlerResume(handler, req.name, req.args, stage, outcome, locals))
    /\ UNCHANGED <<entry, req, handler, outcome, invoked, listed, registry, httpVars,
                   hintVars>>

\* The response is delivered and the request discarded.
Finish ==
    /\ pc = "done"
    /\ pc' = "idle"
    /\ entry' = "none"
    /\ req' = NoRequest
    /\ handler' = "none"
    /\ stage' = ""
    /\ locals' = NoLocals
    /\ outcome' = NoOutcome
    /\ remoteCalls' = <<>>
    /\ responses' = <<>>
    /\ thrown' = FALSE
    /\ invoked' = <<>>
    /\ log' = <<>>
    /\ UNCHANGED <<listed, registry, httpVars, hintVars>>

Next ==
    \/ ListTools
    \/ \E name \in ToolNames : \E args \in ArgsOf(name) : CallTool(name, args)
    \/ \E g \in ExportedHandlers : \E name \in ToolNames : \E args \in ArgsOf(name) :
            InvokeHandler(g, name, args)
    \/ RemoteReturns
    \/ RemoteRaises
    \/ Resume
    \/ Finish

Spec == Init /\ [][Next]_vars

(***************************************************************************)
(* The state machine of the HTTP endpoint: the process of main() and the   *)
(* requests on /mcp, each advancing between its awaits in any order.       *)
(***************************************************************************)
\* main(), from its first statement to app.listen() or to process.exit(1).
Main ==
    /\ phase = "starting"
    /\ \E cred \in {"valid", "invalid"} :
            /\ credentials' = cred
            /\ phase' = main(cred)
    /\ UNCHANGED <<conns, instances, closed, toolVars, hintVars>>

\* process.on("SIGINT"): server.close() and process.exit(0).
Sigint ==
    /\ phase = "listening"
    /\ phase' = "exited"
    /\ UNCHANGED <<credentials, conns, instances, closed, toolVars, hintVars>>

\* A request on /mcp reaches the listening server; its body is being read.
Arrive(r, method, body) ==
    /\ phase = "listening"
    /\ conns[r].at = "none"
    /\ \A q \in RequestIds : q < r => conns[q].at # "none"
    /\ conns' = [conns EXCEPT ![r] = [NoConn EXCEPT !.method = method, !.body = body,
                                                    !.at = "parsing"]]
    /\ UNCHANGED <<phase, credentials, instances, closed, toolVars, hintVars>>

\* The body has been read: express.json(), then the route handler up to its
\* first await.
RouteRequest(r) ==
    /\ phase = "listening"
    /\ conns[r].at = "parsing"
    /\ conns' = [conns EXCEPT ![r] = Route(@, instances)]
    /\ instances' = IF Route(conns[r], instances).server # 0 THEN instances + 2
                    ELSE instances
    /\ UNCHANGED <<phase, credentials, closed, toolVars, hintVars>>

\* server.connect(transport) resolves; the handler wraps onmessage and calls
\* transport.handleRequest(req, res, req.body).
ConnectResolves(r) ==
    /\ phase = "listening"
    /\ conns[r].at = "connect"
    /\ conns' = [conns EXCEPT ![r] = [@ EXCEPT !.at = "handle", !.connected = TRUE]]
    /\ UNCHANGED <<phase, credentials, instances, closed, toolVars, hintVars>>

\* server.connect(transport) rejects.
ConnectRejects(r) ==
    /\ phase = "listening"
    /\ conns[r].at = "connect"
    /\ conns' = [conns EXCEPT ![r] = PostCatch(@)]
    /\ UNCHANGED <<phase, credentials, instances, closed, toolVars, hintVars>>

\* The transport answers the request: the JSON-RPC response of the server
\* it passed the message to, or its own rejection of the message.
TransportWrites(r) ==
    /\ phase = "listening"
    /\ conns[r].at \in {"handle", "done"}
    /\ conns[r].connected
    /\ ~conns[r].headersSent
    /\ ~conns[r].resClosed
    /\ conns[r].transport \notin closed
    /\ \E status \in {200, 400} :
            conns' = [conns EXCEPT ![r] =
                        resWrite([@ EXCEPT !.dispatched = (status = 200)],
                                 HttpResponse(status, <<W("<transport response>")>>))]
    /\ UNCHANGED <<phase, credentials, instances, closed, toolVars, hintVars>>

\* transport.handleRequest(...) resolves.
HandleRequestResolves(r) ==
    /\ phase = "listening"
    /\ conns[r].at = "handle"
    /\ conns' = [conns EXCEPT ![r] = [@ EXCEPT !.at = "done"]]
    /\ UNCHANGED <<phase, credentials, instances, closed, toolVars, hintVars>>

\* transport.handleRequest(...) rejects.
HandleRequestRejects(r) ==
    /\ phase = "listening"
    /\ conns[r].at = "handle"
    /\ conns' = [conns EXCEPT ![r] = PostCatch(@)]
    /\ UNCHANGED <<phase, credentials, instances, closed, toolVars, hintVars>>

\* The HTTP response closes, after its end or when the client goes away: the
\* 'close' listeners run.  A request whose body was still being read never
\* reaches its route handler.
ResponseCloses(r) ==
    /\ phase = "listening"
    /\ conns[r].at # "none"
    /\ ~conns[r].resClosed
    /\ conns' = [conns EXCEPT ![r] =
                    [@ EXCEPT !.resClosed = TRUE,
                              !.at = IF @ = "parsing" THEN "done" ELSE @]]
    /\ closed' = closed \cup conns[r].onClose
    /\ UNCHANGED <<phase, credentials, instances, toolVars, hintVars>>

HttpNext ==
    \/ Main
    \/ Sigint
    \/ \E r \in RequestIds : \E method \in Methods : \E body \in Bodies :
            Arrive(r, method, body)
    \/ \E r \in RequestIds : RouteRequest(r)
    \/ \E r \in RequestIds : ConnectResolves(r)
    \/ \E r \in RequestIds : ConnectRejects(r)
    \/ \E r \in RequestIds : TransportWrites(r)
    \/ \E r \in RequestIds : HandleRequestResolves(r)
    \/ \E r \in RequestIds : HandleRequestRejects(r)
    \/ \E r \in RequestIds : ResponseCloses(r)

HttpSpec == Init /\ [][HttpNext]_vars

(***************************************************************************)
(* The state machine of the static hints: loads and lookups.  A lookup     *)
(* runs between two statements of a load only where the load yields to     *)
(* the event loop.                                                         *)
(***************************************************************************)
HintTargets == {"Customer", "Item", "Onboard", "Close", "Lead"}

\* A load that begins without replacing the tables of the previous load.
LoadStart_keepsTables(dir, missing) ==
    /\ loader.at = "idle"
    /\ staticHints' = staticHints
    /\ loader' = [NoLoad EXCEPT !.at = "readdir", !.started = TRUE, !.dir = dir,
                                !.missing = missing, !.previous = staticHints,
                                !.unchanged = /\ loader.started
                                              /\ dir = loader.dir
                                              /\ missing = loader.missing]
    /\ lookups' = NoLookup
    /\ UNCHANGED <<toolVars, httpVars>>

\* loadStaticHints() begins: staticHints is assigned two new, empty Maps.
\* The load keeps the tables it found, and whether the directory is as the
\* previous load found it.
LoadStart(dir, missing) ==
    /\ loader.at = "idle"
    /\ staticHints' = EmptyHints
    /\ loader' = [NoLoad EXCEPT !.at = "readdir", !.started = TRUE, !.dir = dir,
                                !.missing = missing, !.previous = staticHints,
                                !.unchanged = /\ loader.started
                                              /\ dir = loader.dir
                                              /\ missing = loader.missing]
    /\ lookups' = NoLookup
    /\ UNCHANGED <<toolVars, httpVars>>

\* The next statement of the load in progress.
LoadStep ==
    /\ loader.at # "idle"
    /\ loader' = loadStaticHints_step(loader, staticHints).loader
    /\ staticHints' = loadStaticHints_step(loader, staticHints).tables
    /\ UNCHANGED <<lookups, toolVars, httpVars>>

LookupEnabled == loader.at = "idle" \/ loader.yield

Looked(fn, arg, result) ==
    [fn |-> fn, arg |-> arg, result |-> result, loading |-> loader.at # "idle"]

GetDocTypeHints(doctype) ==
    /\ LookupEnabled
    /\ lookups' = Looked("getDocTypeHints", doctype,
                         getDocTypeHints(staticHints, JStr(doctype)))
    /\ UNCHANGED <<staticHints, loader, toolVars, httpVars>>

GetWorkflowHints(workflow) ==
    /\ LookupEnabled
    /\ lookups' = Looked("getWorkflowHints", workflow,
                         getWorkflowHints(staticHints, JStr(workflow)))
    /\ UNCHANGED <<staticHints, loader, toolVars, httpVars>>

FindWorkflowsForDocType(doctype) ==
    /\ LookupEnabled
    /\ lookups' = Looked("findWorkflowsForDocType", doctype,
                         findWorkflowsForDocType(staticHints, JStr(doctype)))
    /\ UNCHANGED <<staticHints, loader, toolVars, httpVars>>

HintsNext ==
    \/ \E dir \in Directories : LoadStart(dir, FALSE)
    \/ LoadStart({}, TRUE)
    \/ LoadStep
    \/ \E doctype \in HintTargets : GetDocTypeHints(doctype)
    \/ \E workflow \in HintTargets : GetWorkflowHints(workflow)
    \/ \E doctype \in HintTargets : FindWorkflowsForDocType(doctype)

HintsSpec == Init /\ [][HintsNext]_vars

(***************************************************************************)
(* Properties.                                                             *)
(***************************************************************************)
Groups == Range(GroupOrder)

\* The groups that declare a tool name, and the first of them in the
\* priority order of the design.
Declaring(name) == {g \in Groups : name \in Range(GroupTools(g))}

FirstDeclaring(name) ==
    GroupOrder[CHOOSE i \in 1..Len(GroupOrder) :
                  /\ GroupOrder[i] \in Declaring(name)
                  /\ \A j \in 1..(i - 1) : GroupOrder[j] \notin Declaring(name)]

Owner(name) ==
    IF Declaring(name) # {} THEN FirstDeclaring(name)
    ELSE IF name = "ping" THEN "ping"
    ELSE "unknown"

Count(seq, x) == Cardinality({i \in 1..Len(seq) : seq[i] = x})

\* A group handler is running one of the tools it declares.
HandlesOwnTool == handler \in Groups /\ req.name \in Range(GroupTools(handler))

\* The call has been answered; its response and the text of it.
Answered == pc = "done" /\ Len(responses) = 1
Response == responses[1]
ResponseText == responses[1].content[1].text

WellFormed(resp) ==
    /\ Len(resp.content) = 1
    /\ resp.content[1].type = "text"
    /\ resp.content[1].text # <<>>
    /\ resp.isError \in BOOLEAN

\* Every token of message occurs in text.
Mentions(text, message) == Range(message) \subseteq Range(text)

\* C1: every dispatched tool call is handled by the first group, in the order
\* document, schema, helper, blueprint, doctype-structure, workflow, ping, that
\* declares its name, and by no other group's handler.
C1_DispatchInGroupOrder ==
    entry = "dispatch" =>
        /\ handler = Owner(req.name)
        /\ invoked = IF Owner(req.name) \in Groups THEN <<Owner(req.name)>> ELSE <<>>

\* C2: list_tools returns every tool name of the registry exactly once, and no
\* tool name is declared by two groups.
C2_NamesListedOnce ==
    listed # <<>> =>
        /\ \A name \in ToolNames \ {UnknownTool} : Count(listed, name) = 1
        /\ \A name \in ToolNames : Cardinality(Declaring(name)) <= 1

\* C3: a tool call that lacks a required argument (absent or the empty string)
\* is answered with is_error=true and a message naming the missing field, and
\* issues no remote call.
C3_MissingRequiredRejected ==
    \A k \in SchemaRequired(handler, req.name) :
        (HandlesOwnTool /\ req.args.present /\ ~ArgTruthy(Get(req.args, k))) =>
            /\ remoteCalls = <<>>
            /\ Answered => (Response.isError /\ W(k) \in Range(ResponseText))

\* C4: every handler path ends in exactly one well-formed response and never
\* throws to its caller; when its remote call raised, or reading the result
\* raised, the response has is_error=true and carries the error's message.
C4_ExactlyOneResponse ==
    /\ ~thrown
    /\ Len(responses) <= 1
    /\ pc = "done" => (Len(responses) = 1 /\ WellFormed(Response))
    /\ (pc = "done" /\ outcome.kind = "err") =>
            /\ Response.isError
            /\ handler \in {"helper", "blueprint", "doctype", "workflow"} =>
                    Mentions(ResponseText, outcome.message)
    /\ (pc = "done" /\ handler \in {"doctype", "workflow"} /\ outcome.kind = "ok"
            /\ outcome.val = JNull) =>
            (Response.isError /\ Mentions(ResponseText, TypeErrorMessage))

C4_Witness ==
    /\ pc = "done"
    /\ handler = "doctype"
    /\ outcome.kind = "err"
    /\ Len(responses) = 1
    /\ responses[1].isError

\* C5: a dispatched tool name that no group declares (and is not ping) is
\* answered with is_error=true and the text "Unknown tool: <name>", as a
\* response and not an exception, without a remote call.
C5_UnknownTool ==
    (entry = "dispatch" /\ Owner(req.name) = "unknown") =>
        /\ pc = "done"
        /\ ~thrown
        /\ invoked = <<>>
        /\ remoteCalls = <<>>
        /\ responses = <<[content |-> <<[type |-> "text",
                                         text |-> <<W("Unknown tool:"), W(req.name)>>]>>,
                          isError |-> TRUE]>>

C5_Witness ==
    /\ entry = "dispatch"
    /\ req.name = UnknownTool
    /\ Answered
    /\ Response.isError

\* C6: a dispatched ping is answered with the single text block "pong" and
\* is_error=false, without a remote call, whatever its arguments.
C6_Ping ==
    (entry = "dispatch" /\ req.name = "ping") =>
        /\ pc = "done"
        /\ remoteCalls = <<>>
        /\ invoked = <<>>
        /\ responses = <<[content |-> <<[type |-> "text", text |-> <<W("pong")>>]>>,
                          isError |-> FALSE]>>

C6_Witness ==
    /\ entry = "dispatch"
    /\ req.name = "ping"
    /\ req.args.present
    /\ "payload" \in DOMAIN req.args.m
    /\ Answered

MessagingTools == {"send_whatsapp_message", "send_instagram_message"}

\* The handlers whose every remote call is in the sources at hand.
SingleCallHandler ==
    \/ handler \in {"blueprint", "doctype", "workflow"}
    \/ handler = "helper" /\ req.name \in MessagingTools

\* C7 as stated: every tool call is exactly one remote round trip, with no
\* second remote call as a retry, a fallback or an extra lookup.
C7_ExactlyOneRoundTrip ==
    /\ Len(remoteCalls) <= 1
    /\ (pc = "done" /\ HandlesOwnTool /\ "reject" \notin Range(log)) =>
            Len(remoteCalls) = 1

\* C7, amended: a call handled by the blueprint, doctype-structure or workflow
\* handler or by a messaging helper tool issues at most one remote call, and
\* exactly one once its argument tests pass; ping, an unknown tool and
\* get_api_instructions issue none; get_field_options issues one to four: the
\* DocType's schema, then for a Link field the linked schema, the document
\* list, and a fallback document list after a failure of either.
C7_RoundTripsPerTool ==
    /\ SingleCallHandler =>
            /\ Len(remoteCalls) <= 1
            /\ (pc = "done" /\ HandlesOwnTool /\ "reject" \notin Range(log)) =>
                    Len(remoteCalls) = 1
    /\ (handler \in {"ping", "unknown"} \/ req.name = "get_api_instructions") =>
            remoteCalls = <<>>
    /\ (handler = "schema" /\ req.name = "get_field_options") =>
            /\ Len(remoteCalls) <= 4
            /\ (pc = "done" /\ "reject" \notin Range(log)) => Len(remoteCalls) >= 1
            /\ \A i \in 1..Len(remoteCalls) :
                    remoteCalls[i].method = IF i <= 2 THEN "getDocument" ELSE "getDocList"
            /\ Len(remoteCalls) = 4 =>
                    remoteCalls[4].params.fields = "[name]"

C7_Witness ==
    /\ pc = "done"
    /\ req.name = "get_field_options"
    /\ Len(remoteCalls) = 4
    /\ Count(log, "raise") = 1
    /\ ~Response.isError

\* C8 as stated: whenever the remote call succeeds, the response text is JSON
\* that parses back to the remote result.
C8_TextParsesToResult ==
    (Answered /\ HandlesOwnTool /\ outcome.kind = "ok") =>
        (JSONparse(ResponseText).ok /\ JSONparse(ResponseText).val = outcome.val)

\* C8, amended: when the remote call of a doctype-structure or workflow tool
\* succeeds, the response text is JSON that parses back to the result, except
\* for a null result, which is answered with is_error=true and the text of
\* the TypeError; the blueprint handler's text is a caption followed by JSON
\* that parses back to the result; a messaging helper tool answers in prose
\* that is not JSON.
C8_TextParsesToResult_Amended ==
    /\ (Answered /\ HandlesOwnTool /\ handler \in {"doctype", "workflow"}
            /\ outcome.kind = "ok" /\ outcome.val = JNull) =>
            /\ Response.isError
            /\ ~JSONparse(ResponseText).ok
            /\ Mentions(ResponseText, TypeErrorMessage)
    /\ (Answered /\ HandlesOwnTool /\ handler = "helper" /\ req.name \in MessagingTools
            /\ outcome.kind = "ok") =>
            ~JSONparse(ResponseText).ok
    /\ (Answered /\ HandlesOwnTool /\ handler \in {"doctype", "workflow"}
            /\ outcome.kind = "ok" /\ outcome.val # JNull) =>
            (JSONparse(ResponseText).ok /\ JSONparse(ResponseText).val = outcome.val)
    /\ (Answered /\ HandlesOwnTool /\ handler = "blueprint" /\ outcome.kind = "ok") =>
            /\ ~JSONparse(ResponseText).ok
            /\ Head(ResponseText).k = "w"
            /\ JSONparse(Tail(ResponseText)).ok
            /\ JSONparse(Tail(ResponseText)).val = outcome.val

C8_Witness ==
    /\ Answered
    /\ handler = "workflow"
    /\ outcome.kind = "ok"
    /\ outcome.val.t = "obj"
    /\ Len(outcome.val.m) = 2
    /\ JSONparse(ResponseText).val = outcome.val

\* The result carries a success flag.
HasSuccessFlag(v) == GetProp(v, "success").t # "undefined"

\* C9 as stated: on a successful remote call is_error is the negation of the
\* result's success flag when it has one, and false when it has none.
C9_IsErrorFromFlag ==
    (Answered /\ HandlesOwnTool /\ handler \in {"blueprint", "doctype", "workflow"}
        /\ outcome.kind = "ok") =>
        Response.isError = IF HasSuccessFlag(outcome.val)
                           THEN ~Truthy(GetProp(outcome.val, "success"))
                           ELSE FALSE

\* C9, amended: on a successful remote call the doctype-structure and workflow
\* handlers set is_error to the negation of the truthiness of result.success,
\* so is_error is false only for a result with a truthy success flag and true
\* for a falsy or absent flag (and for a null result); the blueprint handler
\* sets is_error=false whatever the result holds.
C9_IsErrorFromFlag_Amended ==
    /\ (Answered /\ HandlesOwnTool /\ handler \in {"doctype", "workflow"}
            /\ outcome.kind = "ok") =>
            Response.isError = ~(/\ outcome.val.t = "obj"
                                 /\ HasSuccessFlag(outcome.val)
                                 /\ Truthy(GetProp(outcome.val, "success")))
    /\ (Answered /\ HandlesOwnTool /\ handler = "blueprint" /\ outcome.kind = "ok") =>
            ~Response.isError

C9_Witness ==
    /\ Answered
    /\ handler = "doctype"
    /\ outcome.kind = "ok"
    /\ outcome.val.t = "obj"
    /\ ~HasSuccessFlag(outcome.val)
    /\ Response.isError

\* The events of one kind among the first n of the log.
CountUpTo(n, kinds) == Cardinality({i \in 1..n : log[i] \in kinds})

\* C10: the steps of one tool call run in sequence: the arguments are
\* validated before any remote call is issued, a remote call is issued only
\* after the previous one has completed, and the response is produced last,
\* after every remote call has returned or raised.
C10_StepsInSequence ==
    /\ Count(log, "call") = Len(remoteCalls)
    /\ \A i \in 1..Len(log) :
            /\ log[i] = "validate" => CountUpTo(i, {"call"}) = 0
            /\ log[i] = "call" =>
                    CountUpTo(i - 1, {"call"}) = CountUpTo(i - 1, {"return", "raise"})
            /\ log[i] = "respond" =>
                    /\ i = Len(log)
                    /\ CountUpTo(i, {"call"}) = CountUpTo(i, {"return", "raise"})
    /\ "reject" \in Range(log) => remoteCalls = <<>>
    /\ (HandlesOwnTool /\ SchemaRequired(handler, req.name) # {} /\ remoteCalls # <<>>) =>
            /\ log[1] = "validate"
            /\ req.args.present
            /\ handler \in {"doctype", "workflow"} =>
                    \A k \in SchemaRequired(handler, req.name) : ArgTruthy(Get(req.args, k))
    /\ responses # <<>> => (pc = "done" /\ log[Len(log)] = "respond")
    /\ pc = "await" <=>
            CountUpTo(Len(log), {"call"}) = CountUpTo(Len(log), {"return", "raise"}) + 1

C10_Witness ==
    /\ handler = "workflow"
    /\ req.name = "create_blueprint"
    /\ log = <<"validate", "call", "return", "format", "respond">>
    /\ Answered

(***************************************************************************)
(* Properties of the HTTP endpoint.                                        *)
(***************************************************************************)
Constructed(r) == conns[r].server # 0

\* The server and the transport a request constructed.
Objects(r) == {conns[r].server, conns[r].transport} \ {0}

\* C11: every POST constructs its own new server and transport: whatever the
\* interleaving of concurrent POSTs, no server or transport is shared by two
\* requests, and a request's listener refers to its own objects only.
C11_OwnServerAndTransport ==
    /\ \A r \in RequestIds :
            /\ (conns[r].method = "POST" /\ conns[r].at \in {"connect", "handle"}) =>
                    Constructed(r)
            /\ Constructed(r) =>
                    /\ conns[r].method = "POST"
                    /\ conns[r].server # conns[r].transport
                    /\ Objects(r) \subseteq 1..instances
                    /\ conns[r].onClose \subseteq Objects(r)
    /\ \A r1, r2 \in RequestIds : r1 # r2 => Objects(r1) \cap Objects(r2) = {}
    /\ instances = 2 * Cardinality({r \in RequestIds : Constructed(r)})

C11_Witness ==
    /\ \A r \in RequestIds : Constructed(r) /\ conns[r].at = "handle" /\ ~conns[r].resClosed
    /\ Cardinality(UNION {Objects(r) : r \in RequestIds}) = 2 * MaxRequests

\* C12: when the HTTP response of a POST that constructed a transport and a
\* server closes, both are closed, also when handling the request raised;
\* and an object is closed only by the close of its own request's response.
C12_TeardownOnClose ==
    /\ \A r \in RequestIds :
            (Constructed(r) /\ conns[r].resClosed) => Objects(r) \subseteq closed
    /\ \A o \in closed : \E r \in RequestIds : conns[r].resClosed /\ o \in Objects(r)
    /\ \A r \in RequestIds :
            (Constructed(r) /\ ~conns[r].resClosed) => Objects(r) \cap closed = {}

C12_Witness ==
    \E r1, r2 \in RequestIds :
        /\ Constructed(r1) /\ conns[r1].raised /\ conns[r1].resClosed
        /\ Objects(r1) \subseteq closed
        /\ Constructed(r2) /\ ~conns[r2].resClosed /\ conns[r2].at = "connect"
        /\ Objects(r2) \cap closed = {}

\* C13: when the processing of a POST raises before the response headers
\* were sent, the response is HTTP 500 with the JSON-RPC body
\* {error: {code: -32603}, id: null}; when the headers were sent already,
\* nothing more is written; no request receives two responses.
C13_InternalErrorOnce ==
    [][\A r \in RequestIds :
            /\ Len(conns'[r].written) <= 1
            /\ ~conns'[r].unhandled
            /\ (conns'[r].raised /\ ~conns[r].raised) =>
                    IF conns[r].headersSent
                    THEN conns'[r].written = conns[r].written
                    ELSE /\ Len(conns'[r].written) = 1
                         /\ conns'[r].written[1].status = 500
                         /\ LET body == JSONparse(conns'[r].written[1].body)
                            IN /\ body.ok
                               /\ GetProp(GetProp(body.val, "error"), "code") = JNum("-32603")
                               /\ GetProp(body.val, "id") = JNull]_vars

C13_Witness ==
    \E r1, r2 \in RequestIds :
        /\ conns[r1].raised /\ conns[r1].written # <<>> /\ conns[r1].written[1].status = 200
        /\ conns[r2].raised /\ conns[r2].written # <<>> /\ conns[r2].written[1].status = 500

\* C14: a POST whose body fails JSON parsing before it reaches the
\* dispatcher is answered with HTTP 500 and the JSON-RPC body
\* {error: {code: -32603, ...}, id: null}.
C14_MalformedBodyIsInternalError ==
    \A r \in RequestIds :
        (conns[r].method = "POST" /\ conns[r].body = "malformed"
            /\ conns[r].written # <<>>) =>
            /\ conns[r].written[1].status = 500
            /\ LET body == JSONparse(conns[r].written[1].body)
               IN /\ body.ok
                  /\ GetProp(GetProp(body.val, "error"), "code") = JNum("-32603")
                  /\ GetProp(body.val, "id") = JNull

\* C15: every GET and every DELETE on /mcp is answered with HTTP 405 and the
\* body {jsonrpc: "2.0", error: {code: -32000, message: "Method not
\* allowed."}, id: null}, and dispatches no tool call.
C15_MethodNotAllowed ==
    \A r \in RequestIds :
        (conns[r].method \in {"GET", "DELETE"} /\ conns[r].written # <<>>) =>
            /\ Len(conns[r].written) = 1
            /\ conns[r].written[1].status = 405
            /\ JSONparse(conns[r].written[1].body).ok
            /\ JSONparse(conns[r].written[1].body).val =
                    JsonRpcError("-32000", "Method not allowed.")
            /\ ~conns[r].dispatched
            /\ ~Constructed(r)

C17_ListOrder ==
    listed # <<>> =>
        listed = DOCUMENT_TOOLS \o SCHEMA_TOOLS \o HELPER_TOOLS \o BLUEPRINT_TOOLS
                 \o DOCTYPE_OPERATIONS_TOOLS \o WORKFLOW_TOOLS \o <<"ping">>

\* The openings of the messages that report missing arguments.
MissingPhrases ==
    {W("Missing arguments for tool call"), W("Missing arguments for"),
     W("Missing required argument:"), W("Missing required arguments:")}

\* C18: a tool call without any arguments, for a tool that requires some, is
\* answered with is_error=true and a missing-arguments message; nothing is
\* raised past the handler and no remote call is issued.
C18_AbsentArguments ==
    (HandlesOwnTool /\ ~req.args.present /\ SchemaRequired(handler, req.name) # {}) =>
        /\ pc = "done"
        /\ ~thrown
        /\ remoteCalls = <<>>
        /\ Len(responses) = 1
        /\ Response.isError
        /\ Range(ResponseText) \cap MissingPhrases # {}

C18_Witness ==
    /\ handler = "blueprint"
    /\ req.name = "execute_blueprint"
    /\ ~req.args.present
    /\ Answered
    /\ Response.isError
    /\ "throw" \in Range(log)

(***************************************************************************)
(* Properties of the static hints.                                         *)
(***************************************************************************)
\* A hint the loader keeps: it has a type and a target, and a doctype hint
\* has its text, a workflow hint its array of steps.
Accepts(h) ==
    /\ Truthy(GetProp(h, "type"))
    /\ Truthy(GetProp(h, "target"))
    /\ \/ GetProp(h, "type") = JStr("doctype") /\ Truthy(GetProp(h, "hint"))
       \/ GetProp(h, "type") = JStr("workflow") /\ GetProp(h, "steps").t = "arr"

\* An entry the loop over a file's hints stops at.
Raises(h) ==
    \/ h.t = "null"
    \/ /\ Truthy(GetProp(h, "type"))
       /\ Truthy(GetProp(h, "target"))
       /\ GetProp(h, "type") \notin {JStr("doctype"), JStr("workflow")}

MalformedFile(f) == f.ext = ".json" /\ ~JSONparse(f.content).ok

\* The entries of a file the loader reads: those of a .json file that parses
\* to an array, up to the first entry that raises.
EntriesRead(f) ==
    LET parsed == JSONparse(f.content)
    IN IF f.ext # ".json" \/ ~parsed.ok \/ parsed.val.t # "arr" THEN <<>>
       ELSE LET es == parsed.val.e
                stops == {i \in 1..Len(es) : Raises(es[i])}
                n == IF stops = {} THEN Len(es)
                     ELSE (CHOOSE i \in stops : \A j \in stops : i <= j) - 1
            IN SubSeq(es, 1, n)

RECURSIVE EntriesOfDir(_, _)
EntriesOfDir(dir, i) ==
    IF i > Len(HintFiles) THEN <<>>
    ELSE (IF i \in dir THEN EntriesRead(HintFiles[i]) ELSE <<>>) \o EntriesOfDir(dir, i + 1)

\* The hints of one type and target a completed load of the directory holds.
ExpectedHints(ld, type, target) ==
    LET Wanted(h) == /\ Accepts(h)
                     /\ GetProp(h, "type") = JStr(type)
                     /\ GetProp(h, "target") = JStr(target)
    IN IF ld.missing THEN <<>> ELSE SelectSeq(EntriesOfDir(ld.dir, 1), Wanted)

LoadCompleted == loader.at = "idle" /\ loader.started

\* C19: loading a directory that holds malformed JSON files and valid files
\* does not raise, and afterwards the tables hold exactly the hints of the
\* files that parse, in order, and nothing of the malformed files.
C19_MalformedFilesSkipped ==
    LoadCompleted =>
        /\ ~loader.raised
        /\ \A type \in {"doctype", "workflow"} :
                /\ \A target \in HintTargets :
                        MapGetOr(staticHints[type], JStr(target)) =
                            ExpectedHints(loader, type, target)
                /\ \A i \in 1..Len(staticHints[type]) :
                        /\ staticHints[type][i].key \in {JStr(t) : t \in HintTargets}
                        /\ staticHints[type][i].val # <<>>

C19_Witness ==
    /\ LoadCompleted
    /\ {1, 2} \subseteq loader.dir
    /\ MalformedFile(HintFiles[1])
    /\ getDocTypeHints(staticHints, JStr("Customer")) =
            <<DocHint("Customer", "h1"), DocHint("Customer", "h2")>>

\* The tables of a load of the directory run from its first statement to
\* its last.
RECURSIVE LoadAll(_, _)
LoadAll(tables, files) ==
    IF files = <<>> THEN tables
    ELSE LoadAll(processHintFile(tables, Head(files).content).tables, Tail(files))

LoadedTables(ld) ==
    IF ld.missing THEN EmptyHints ELSE LoadAll(EmptyHints, JsonFiles(readdirSync(ld.dir)))

LookupIn(fn, tables, arg) ==
    CASE fn = "getDocTypeHints" -> getDocTypeHints(tables, JStr(arg))
      [] fn = "getWorkflowHints" -> getWorkflowHints(tables, JStr(arg))
      [] fn = "findWorkflowsForDocType" -> findWorkflowsForDocType(tables, JStr(arg))

\* C20 as stated: the new tables are fully built before they become visible:
\* while a load is in progress staticHints holds the complete previous
\* tables or the complete new ones.
C20_BuiltBeforeVisible ==
    loader.at # "idle" => staticHints \in {loader.previous, LoadedTables(loader)}

\* C20, amended: loadStaticHints first replaces the tables by empty ones and
\* then fills them in place, file by file; it runs synchronously, without an
\* await, so no lookup runs while a load is in progress, and every lookup
\* sees the complete tables of the last load that ran (or the initial empty
\* ones), never partially populated ones.
C20_LookupsBetweenLoads ==
    /\ loader.at = "readdir" => staticHints = EmptyHints
    /\ loader.at # "idle" => ~LookupEnabled
    /\ lookups.fn # "" =>
            /\ ~lookups.loading
            /\ loader.at = "idle"
            /\ lookups.result = LookupIn(lookups.fn, staticHints, lookups.arg)
            /\ staticHints = IF loader.started THEN LoadedTables(loader) ELSE EmptyHints

C20_Witness ==
    /\ lookups.fn = "findWorkflowsForDocType"
    /\ Len(lookups.result) = 1
    /\ loader.started
    /\ loader.previous # EmptyHints
    /\ lookups.result # LookupIn(lookups.fn, loader.previous, lookups.arg)

(***************************************************************************)
(* Properties of the handlers' remote calls and results.                   *)
(***************************************************************************)
\* The request supplies the argument k.
Supplied(args, k) == args.present /\ k \in DOMAIN args.m

\* C21: an optional argument that is not supplied is sent as its documented
\* default: list_blueprints without filters sends the filter {is_active: 1},
\* a messaging call without a content type sends content_type "text"; a
\* supplied value is sent unchanged.
C21_DefaultsSent ==
    (HandlesOwnTool /\ remoteCalls # <<>>) =>
        /\ req.name = "list_blueprints" =>
                remoteCalls[1].params.filters =
                    IF Supplied(req.args, "filters") THEN Get(req.args, "filters")
                    ELSE "{is_active: 1}"
        /\ req.name \in MessagingTools =>
                remoteCalls[1].params.content_type =
                    IF Supplied(req.args, "content_type") THEN Get(req.args, "content_type")
                    ELSE "text"

\* The message member of a remote result (undefined for null and for a
\* result without one).
WrapperOf(result) ==
    IF result.t = "null" THEN JUndefined ELSE GetProp(result, "message")

\* A messaging helper tool has been answered from a returned remote result.
MessagingAnswered ==
    /\ Answered
    /\ handler = "helper"
    /\ req.name \in MessagingTools
    /\ outcome.kind = "ok"

\* The response reports the message as sent.
ReportsSent == ~Response.isError /\ W("message sent successfully!") \in Range(ResponseText)

Succeeded(data) == Truthy(data) /\ GetProp(data, "status") = JStr("success")

\* C22 as stated: the handler uses the inner payload whenever the result has
\* a message wrapper key, and the raw result otherwise.
C22_UnwrapsWhenKeyPresent ==
    MessagingAnswered =>
        LET data == IF WrapperOf(outcome.val).t # "undefined" THEN WrapperOf(outcome.val)
                    ELSE outcome.val
        IN ReportsSent <=> Succeeded(data)

\* C22, amended: the handler uses the inner payload when the result's message
\* member is truthy, and the raw result otherwise, also for a result whose
\* message member is present but falsy (null, "", 0, false).
C22_UnwrapsWhenTruthy ==
    MessagingAnswered =>
        LET data == IF Truthy(WrapperOf(outcome.val)) THEN WrapperOf(outcome.val)
                    ELSE outcome.val
        IN /\ ReportsSent <=> Succeeded(data)
           /\ ReportsSent =>
                Interpolate(GetProp(data, "message_id")) \in Range(ResponseText)

C22_Witness ==
    /\ MessagingAnswered
    /\ WrapperOf(outcome.val) = JStr("")
    /\ GetProp(outcome.val, "status") = JStr("success")
    /\ ReportsSent

\* C23: handling any sequence of requests (list_tools, tool calls, failed
\* calls) leaves the tool registry as it was constructed, every list_tools
\* response is the same whatever was handled before it, the hint tables are
\* not written by a request, and between two requests nothing of the
\* earlier one is left.
C23_NothingCarriedOver ==
    /\ registry = Registry
    /\ listed \in {<<>>, list_tools(Registry).tools}
    /\ staticHints = EmptyHints
    /\ pc = "idle" =>
            /\ req = NoRequest /\ entry = "none" /\ handler = "none"
            /\ stage = "" /\ locals = NoLocals /\ outcome = NoOutcome
            /\ remoteCalls = <<>> /\ responses = <<>> /\ ~thrown
            /\ invoked = <<>> /\ log = <<>>

C23_Witness ==
    /\ listed # <<>>
    /\ pc = "done"
    /\ outcome.kind = "err"
    /\ Answered
    /\ Response.isError
    /\ registry = Registry

\* C25: every tool name list_tools returns, call_method included, is
\* dispatchable: a tool call with that name is handled by a group handler or
\* by the built-in ping and is never answered with "Unknown tool".
C25_ListedIsDispatchable ==
    (entry = "dispatch" /\ req.name \in Range(list_tools(registry).tools)) =>
        /\ handler \in Groups \cup {"ping"}
        /\ \A i \in 1..Len(responses) : responses[i] # UnknownToolResponse(req.name)

\* The tools that declare no required argument.
NoRequiredTools ==
    {"get_module_list", "find_doctypes", "list_blueprints", "get_available_events",
     "get_available_actions"}

\* C26: a call without arguments of a tool that declares no required
\* argument is executed normally: it is not rejected with a
\* missing-arguments error, and its remote call is issued.
C26_NoArgumentsNeeded ==
    (HandlesOwnTool /\ ~req.args.present /\ req.name \in NoRequiredTools) =>
        /\ "reject" \notin Range(log)
        /\ Len(remoteCalls) >= 1
        /\ Answered => Range(ResponseText) \cap MissingPhrases = {}

RaisesInFile(f) ==
    LET parsed == JSONparse(f.content)
    IN /\ f.ext = ".json"
       /\ parsed.ok
       /\ parsed.val.t = "arr"
       /\ \E i \in 1..Len(parsed.val.e) : Raises(parsed.val.e[i])

\* The records of a file that is loaded as a whole or not at all.
EntriesWhole(f) ==
    LET parsed == JSONparse(f.content)
    IN IF f.ext # ".json" \/ ~parsed.ok \/ parsed.val.t # "arr" \/ RaisesInFile(f)
       THEN <<>>
       ELSE parsed.val.e

RECURSIVE EntriesWholeOfDir(_, _)
EntriesWholeOfDir(dir, i) ==
    IF i > Len(HintFiles) THEN <<>>
    ELSE (IF i \in dir THEN EntriesWhole(HintFiles[i]) ELSE <<>>)
         \o EntriesWholeOfDir(dir, i + 1)

\* C24: a hint file is loaded or skipped as a whole: when processing a file
\* raises at a record, none of the file's records are in the tables after
\* the load, and the records of the other files are all there.
C24_FileLoadedOrSkippedWhole ==
    LoadCompleted =>
        \A type \in {"doctype", "workflow"} : \A target \in HintTargets :
            LET Wanted(h) == /\ Accepts(h)
                             /\ GetProp(h, "type") = JStr(type)
                             /\ GetProp(h, "target") = JStr(target)
            IN MapGetOr(staticHints[type], JStr(target)) =
                    IF loader.missing THEN <<>>
                    ELSE SelectSeq(EntriesWholeOfDir(loader.dir, 1), Wanted)

\* The hints a table holds, of every target.
RECURSIVE HintsOf(_)
HintsOf(map) == IF map = <<>> THEN {} ELSE Range(Head(map).val) \cup HintsOf(Tail(map))

\* C28: loadStaticHints is idempotent: a load of a directory that is as the
\* previous load found it leaves the tables equal to those of the previous
\* load (hints do not accumulate), and after a load the tables hold hints of
\* the files of the directory only, so that hints of removed files are gone.
C28_LoadIsIdempotent ==
    LoadCompleted =>
        /\ loader.unchanged => staticHints = loader.previous
        /\ \A type \in {"doctype", "workflow"} :
                /\ HintsOf(staticHints[type]) \subseteq
                        IF loader.missing THEN {} ELSE Range(EntriesOfDir(loader.dir, 1))
                /\ \A i \in 1..Len(staticHints[type]) :
                        Len(staticHints[type][i].val) =
                            Cardinality(Range(staticHints[type][i].val))

C28_Witness ==
    /\ LoadCompleted
    /\ loader.unchanged
    /\ {2, 6} \subseteq loader.dir
    /\ staticHints = loader.previous
    /\ Len(getDocTypeHints(staticHints, JStr("Customer"))) = 2

\* The records of every file, in the order of the files and of the records.
RECURSIVE AllEntries(_)
AllEntries(i) ==
    IF i > Len(HintFiles) THEN <<>>
    ELSE LET parsed == JSONparse(HintFiles[i].content)
         IN (IF parsed.ok /\ parsed.val.t = "arr" THEN parsed.val.e ELSE <<>>)
            \o AllEntries(i + 1)

\* The place of a record among the records of the files.
PlaceOf(h) == CHOOSE n \in 1..Len(AllEntries(1)) : AllEntries(1)[n] = h

NamedField(doc, fieldname) ==
    LET fs == GetProp(doc, "fields")
        at == IF fs.t = "arr"
              THEN {i \in 1..Len(fs.e) : GetProp(fs.e[i], "fieldname") = JStr(fieldname)}
              ELSE {}
    IN IF at = {} THEN JUndefined
       ELSE fs.e[CHOOSE i \in at : \A j \in at : i <= j]

\* The lines of a text: what lies between two line breaks next to each
\* other, or between a line break and an end of the text.
LinesOf(cs) ==
    LET breaks == {0, Len(cs) + 1} \cup {i \in 1..Len(cs) : cs[i] = "\n"}
        nth(n) == CHOOSE b \in breaks : Cardinality({x \in breaks : x < b}) = n - 1
    IN [n \in 1..(Cardinality(breaks) - 1) |-> SubSeq(cs, nth(n) + 1, nth(n + 1) - 1)]

\* A line without the white space at its ends.
Stripped(line) ==
    LET inked == {i \in 1..Len(line) : line[i] \notin WhiteSpace}
    IN IF inked = {} THEN <<>>
       ELSE SubSeq(line, CHOOSE i \in inked : \A j \in inked : i <= j,
                         CHOOSE i \in inked : \A j \in inked : j <= i)

\* The options of a Select field: {value, label} of each line that is not
\* blank, in order.
OptionsExpected(options) ==
    LET NotBlank(line) == Stripped(line) # <<>>
        kept == SelectSeq(LinesOf(IF Truthy(options) THEN options.c ELSE <<>>), NotBlank)
    IN [i \in 1..Len(kept) |-> JObj(<<Member("value", JChars(Stripped(kept[i]))),
                                       Member("label", JChars(Stripped(kept[i])))>>)]

\* get_field_options has fetched the DocType, which has the field named.
FieldFetched ==
    /\ pc = "ready"
    /\ handler = "schema"
    /\ req.name = "get_field_options"
    /\ stage = "schema"
    /\ outcome.kind = "ok"
    /\ NamedField(outcome.val, Get(req.args, "fieldname")).t = "obj"

\* C30: for a Select field getFieldOptions returns the field's options, one
\* per line and in their order, each trimmed, blank entries dropped, with
\* value equal to label; for a Select field without options, a Table field
\* and every other field that is not a Link it returns the empty list; in
\* all these cases no document list is fetched.
C30_SelectOptions ==
    [][LET field == NamedField(outcome.val, Get(req.args, "fieldname"))
           expected == IF GetProp(field, "fieldtype") = JStr("Select")
                       THEN OptionsExpected(GetProp(field, "options"))
                       ELSE <<>>
       IN (FieldFetched /\ GetProp(field, "fieldtype") # JStr("Link")) =>
            /\ pc' = "done"
            /\ remoteCalls' = remoteCalls
            /\ \A i \in 1..Len(remoteCalls) : remoteCalls[i].method # "getDocList"
            /\ responses' = <<TextResponse(JSONstringify(JArr(expected)), FALSE)>>]_vars

C30_Witness ==
    /\ Answered
    /\ handler = "schema"
    /\ req.name = "get_field_options"
    /\ Len(remoteCalls) = 1
    /\ outcome.kind = "ok"
    /\ GetProp(NamedField(outcome.val, "v"), "fieldtype") = JStr("Select")
    /\ JSONparse(ResponseText).ok
    /\ JSONparse(ResponseText).val =
            JArr(<<JObj(<<Member("value", JChars(<<"N", " ", "Y">>)),
                          Member("label", JChars(<<"N", " ", "Y">>))>>),
                   JObj(<<Member("value", JChars(<<"Z">>)),
                          Member("label", JChars(<<"Z">>))>>)>>)

====
